---- MODULE Spec2Model ----
(***************************************************************************)
(* A model of the Steam CM client (steam-python): the session orchestrator *)
(* CMClient (connect / handshake / read loop / disconnect / send), the     *)
(* EventEmitter it inherits from, and the asyncio event loop that runs its *)
(* coroutines.                                                             *)
(*                                                                         *)
(* Scheduling.  asyncio is single-threaded and cooperative: a task runs    *)
(* from one suspension point to the next, and the callbacks made ready by  *)
(* call_soon run in the order in which they were registered.  `ready` is   *)
(* that FIFO queue; its head is the task that is running.  A task that     *)
(* suspends leaves the queue; whatever wakes it appends it at the tail.    *)
(* Every action below is the piece of one coroutine between two awaits (or *)
(* a part of it), guarded by "this task is the head of the queue", or an   *)
(* event of the environment (the network, the server, the application).    *)
(***************************************************************************)
EXTENDS Integers, Sequences, FiniteSets, TLC

\* ------------------------------------------------------------------ bounds
MaxSockets == 2     \* TCP connections the client may open in one run
MaxFrames == 4      \* frames the server may send on one connection
MaxOn == 3          \* subscribers one topic may have
MaxSubs == 2        \* subscriber tasks that may be pending at a time
MaxOut == 2         \* frames the client may write on one connection

\* --------------------------------------------------------------- constants
None == "None"
NoKey == <<>>
NoSock == 0
Inf == 99
Sockets == 1..MaxSockets

\* Tasks and event-loop callbacks (the entries of the ready queue).
Task(kind, n) == [kind |-> kind, n |-> n]
App == Task("app", 0)
NoTask == Task("none", 0)
RlTask(s) == Task("rl", s)
LostCb(s) == Task("lost", s)
SubTask(n) == Task("sub", n)
RlTasks == {RlTask(s) : s \in Sockets}
LostCbs == {LostCb(s) : s \in Sockets}
SubTasks == {SubTask(n) : n \in 1..MaxSubs}
Tasks == {App} \cup RlTasks \cup SubTasks
Entries == Tasks \cup LostCbs
NoServer == 0

Range(f) == {f[i] : i \in DOMAIN f}

\* ------------------------------------------------------------------ frames
\* What one frame on the wire carries: k is the shape of the frame, id the
\* message id of its packet, code the result code of a ChannelEncryptResult,
\* subs the message ids of the sub-packets of a Multi, enc whether the server
\* encrypted the payload under the key negotiated on this connection.
Frame(k, id, code, subs, enc) ==
    [k |-> k, id |-> id, code |-> code, subs |-> subs, enc |-> enc]
NoMsg == Frame("none", None, 0, <<>>, FALSE)
ReqFrame == Frame("pkt", "ChannelEncryptRequest", 0, <<>>, FALSE)
ResFrame(c) == Frame("pkt", "ChannelEncryptResult", c, <<>>, FALSE)
BadMagicFrame == Frame("badmagic", None, 0, <<>>, FALSE)
ShortFrame == Frame("short", None, 0, <<>>, FALSE)
ClearPkt(id) == Frame("pkt", id, 0, <<>>, FALSE)
EncPkt(id) == Frame("pkt", id, 0, <<>>, TRUE)
EncMulti(subs) == Frame("multi", "Multi", 0, subs, TRUE)
TamperFrame == Frame("tamper", None, 0, <<>>, TRUE)
\* A packet of a known protobuf message whose body does not decode.
EncBad(id) == Frame("undecodable", id, 0, <<>>, TRUE)
EResultOK == 1
OtherCodes == {5}

\* The frames a server may send: cleartext ones for its first two frames (the
\* handshake), encrypted ones afterwards.
FirstFrames == {ReqFrame, ResFrame(EResultOK), BadMagicFrame, ShortFrame}
SecondFrames ==
    {ResFrame(EResultOK), ReqFrame, BadMagicFrame, ShortFrame}
    \cup {ResFrame(c) : c \in OtherCodes}
DataFrames == {EncPkt("A"), EncMulti(<<"B", "C">>), TamperFrame}
ServerFrames == <<FirstFrames, SecondFrames, DataFrames>>

\* What the directory and the latency probes may answer.
FetchLists == {<<>>, <<1>>}
Latencies == {1, Inf}

\* --------------------------------------------------------------------- keys
\* A session key is 32 random bytes: two 16-byte halves, drawn afresh in every
\* handshake (the draw on connection s is named by s).
KeyOf(s) == <<[sock |-> s, half |-> 1], [sock |-> s, half |-> 2]>>

\* ------------------------------------------------------------ EventEmitter
Topics == {"A", "B", "C"}
\* A subscriber: a plain function ("sync"), one that raises ("raise"), a
\* coroutine function ("async"), one whose body raises ("araise"), or the
\* listener of the n-th wait_for, called without a predicate ("wait") or with
\* one ("waitif").
Callback(kind, n) == [kind |-> kind, n |-> n]
WaitKinds == {"wait", "waitif"}
\* What the predicate of a wait_for makes of a packet: it holds, it does not,
\* or it raises.
Packets == {"match", "nomatch", "raises"}
\* wait_for's listener goes past its check on packet p.
Qualifies(cb, p) == cb.kind = "wait" \/ p = "match"

\* list.remove(callback): the first occurrence goes.
RECURSIVE Remove(_, _)
Remove(ls, cb) ==
    IF ls = <<>> THEN <<>>
    ELSE IF Head(ls) = cb THEN Tail(ls)
    ELSE <<Head(ls)>> \o Remove(Tail(ls), cb)

\* An emit that lets the exception of a callback out: the loop over the
\* callbacks ends there.
RECURSIVE DispatchUncaught(_, _, _, _, _)
DispatchUncaught(ls, i, calls, done, p) ==
    IF i > Len(ls) THEN [ls |-> ls, calls |-> calls, done |-> done]
    ELSE LET cb == ls[i] IN
         IF cb.kind \in WaitKinds /\ Qualifies(cb, p) /\ cb.n \notin done
         THEN DispatchUncaught(Remove(ls, cb), i + 1, Append(calls, cb),
                               done \cup {cb.n}, p)
         ELSE IF cb.kind = "raise"
              THEN [ls |-> ls, calls |-> Append(calls, cb), done |-> done]
              ELSE DispatchUncaught(ls, i + 1, Append(calls, cb), done, p)

\* emit's `for callback in self._listeners[event]` from position i of the
\* list ls as it is now, for a packet p: every callback reached is called (an
\* exception it raises is caught and logged, and the loop goes on); the
\* listener of a wait_for returns when its check fails or raises, and else,
\* when its future is not done, sets the result and removes itself from the
\* list the loop is walking.  calls are the callbacks called so far, done the
\* futures that are done.
RECURSIVE Dispatch(_, _, _, _, _)
Dispatch(ls, i, calls, done, p) ==
    IF i > Len(ls) THEN [ls |-> ls, calls |-> calls, done |-> done]
    ELSE LET cb == ls[i] IN
         IF cb.kind \in WaitKinds /\ Qualifies(cb, p) /\ cb.n \notin done
         THEN Dispatch(Remove(ls, cb), i + 1, Append(calls, cb), done \cup {cb.n}, p)
         ELSE IF cb.kind = "raise"
              THEN Dispatch(ls, i + 1, Append(calls, cb), done, p)
              ELSE Dispatch(ls, i + 1, Append(calls, cb), done, p)

\* The emits of the read loop for one frame, one per message id.  The frames
\* of the model carry no body: a predicate holds on their packets.
RECURSIVE EmitAll(_, _, _, _)
EmitAll(ids, L, calls, done) ==
    IF ids = <<>> THEN [ls |-> L, calls |-> calls, done |-> done]
    ELSE IF Head(ids) \notin Topics THEN EmitAll(Tail(ids), L, calls, done)
    ELSE LET r == Dispatch(L[Head(ids)], 1, <<>>, done, "match") IN
         EmitAll(Tail(ids), [L EXCEPT ![Head(ids)] = r.ls], calls \o r.calls, r.done)

\* The calls of wait_for, by number: where each stands (st), whether it was
\* given a timeout (timed), and whether an emit on its topic whose packet goes
\* past its check has left it pending (missed); and the eresult of the packet
\* that its future got (code).
NoWait == [st |-> "none", timed |-> FALSE, missed |-> FALSE, code |-> 0]
\* future.set_result(packet) on the futures newdone, packet being m.
Received(w, newdone, m) ==
    [n \in DOMAIN w |-> IF n \in newdone THEN [w[n] EXCEPT !.code = m.code] ELSE w[n]]
\* The calls of wait_for after emits on the topics ids of packets p under
\* the subscriber lists L: those whose future got its result (newdone) are
\* resolved.
Settled(w, L, ids, newdone, p) ==
    [n \in DOMAIN w |->
        IF n \in newdone THEN [w[n] EXCEPT !.st = "resolved"]
        ELSE IF /\ w[n].st = "pending"
                /\ \E i \in DOMAIN ids : /\ ids[i] \in DOMAIN L
                                          /\ \E k \in DOMAIN L[ids[i]] :
                                               LET cb == L[ids[i]][k] IN
                                               /\ cb.kind \in WaitKinds /\ cb.n = n
                                               /\ Qualifies(cb, p)
             THEN [w[n] EXCEPT !.missed = TRUE]
             ELSE w[n]]

\* The application's coroutine subscriber, which answers the packet it gets.
Sender == Callback("async", 0)

IsAsync(cb) == cb.kind \in {"async", "araise"}
\* The coroutine callbacks among those called: each is started as a task.
AsyncCalls(calls) == SelectSeq(calls, IsAsync)

RECURSIVE Sorted(_)
Sorted(S) ==
    IF S = {} THEN <<>>
    ELSE LET m == CHOOSE x \in S : \A y \in S : x <= y IN <<m>> \o Sorted(S \ {m})

VARIABLES
    \* CMClient fields (cm_client/__init__.py, __init__)
    session, server_list, fastest_server, reader, writer, connected,
    session_key, hmac_secret, loop_task,
    \* the event loop: program counter and return stack of every task, the
    \* ready queue, pending cancellation requests
    pc, ret, ready, mustCancel,
    \* locals of the coroutines
    c_retry, c_fast, c_server, s_iter, s_i, s_pass, h_key, h_ok, msg, out, lsock, atask,
    \* the network: per connection, the transport state, the bytes received
    \* and not yet read, end of stream, frames sent by the server, frames
    \* written by the client
    sockst, inbuf, eof, arrived, outlog, nsock,
    \* EventEmitter: the subscribers of every topic, the futures of wait_for
    \* that are done (have a result or are cancelled), the calls of wait_for
    listeners, futures, waits,
    \* observation of the run (history): the packets the read loop emitted on
    \* the connection held; whether disconnect has returned since the session
    \* was established; the connection on which the read loop saw a receive
    \* fail while connected, and the calls of disconnect it made; the
    \* subscribers registered when the last emit began and those it invoked
    emitted, discDone, rlFail, rlDisc, dispatch,
    \* what the application's last call gave back (its return value, or that
    \* it raised), while the application has not gone on
    result,
    \* of the _select_server call in progress: the probes made (endpoint and
    \* latency, in order), the lists the scans started on, and the calls of
    \* get_server_list
    probes, scans, fetches,
    \* SteamClient and LogonMixin fields (client/__init__.py, mixins/logon.py)
    logged_in, heartbeat_task,
    \* the argument and the value of the pure function a specification applies
    arg, val

client == <<session, server_list, fastest_server, reader, writer, connected,
            session_key, hmac_secret, loop_task>>
sched == <<pc, ret, ready, mustCancel>>
locals == <<c_retry, c_fast, c_server, s_iter, s_i, s_pass, h_key, h_ok, msg, out,
            lsock, atask>>
net == <<sockst, inbuf, eof, arrived, outlog, nsock>>
bus == <<listeners, futures, dispatch, waits>>
hsess == <<discDone, rlFail, rlDisc>>
ext == <<logged_in, heartbeat_task, arg, val>>
sel == <<probes, scans, fetches, ext>>
hobs == <<hsess, result, sel>>
obs == <<emitted, hobs>>
vars == <<client, sched, locals, net, obs, bus>>

\* -------------------------------------------------------------- event loop
Cur == IF ready = <<>> THEN NoTask ELSE Head(ready)
Running(t) == Cur = t
InReady(t) == \E i \in DOMAIN ready : ready[i] = t

\* The program points at which a task is suspended (or queued, not started).
WaitPcs ==
    {"sleep", "g_wait", "f_wait", "p_wait", "c_open_wait", "l_wait", "w_drain",
     "d_await_task", "d_await_self", "d_wait_closed", "d_sess_wait", "rl_start",
     "cb", "lg_future"}
\* Suspended on I/O that the environment completes at a time of its choosing.
IOWaitPcs == {"g_wait", "f_wait", "p_wait", "c_open_wait", "w_drain", "d_sess_wait"}
\* No task is in the middle of a step: the loop is between two callbacks.
Quiet == IF ready = <<>> THEN TRUE ELSE pc[Head(ready)] \in WaitPcs

Resumes(t, at) == Running(t) /\ pc[t] = at /\ ~mustCancel[t]
Goto(t, to) == pc' = [pc EXCEPT ![t] = to]
Call(t, to, back) ==
    /\ pc' = [pc EXCEPT ![t] = to]
    /\ ret' = [ret EXCEPT ![t] = <<back>> \o @]
Return(t) ==
    /\ pc' = [pc EXCEPT ![t] = Head(ret[t])]
    /\ ret' = [ret EXCEPT ![t] = Tail(@)]
Suspend(t, at) == pc' = [pc EXCEPT ![t] = at] /\ ready' = Tail(ready)

\* Tasks blocked in `await task` on u, in the order of their callbacks.
Waiters(u) == IF pc[App] = "d_await_task" /\ atask[App] = u /\ ~InReady(App)
              THEN <<App>> ELSE <<>>
\* The running task t ends (returns, raises or is cancelled).
Finish(t) ==
    /\ pc' = [pc EXCEPT ![t] = "done"]
    /\ ret' = [ret EXCEPT ![t] = <<>>]
    /\ mustCancel' = [mustCancel EXCEPT ![t] = FALSE]
    /\ ready' = Tail(ready) \o Waiters(t)

\* ------------------------------------------------------------------- Init
\* A client as its constructor leaves it, in an event loop that runs only
\* the application's task.
Constructed ==
    /\ session = None /\ server_list = <<>> /\ fastest_server = <<NoServer, Inf>>
    /\ reader = NoSock /\ writer = NoSock /\ connected = FALSE
    /\ session_key = NoKey /\ hmac_secret = NoKey /\ loop_task = NoTask
    /\ pc = [t \in Entries |-> IF t = App THEN "sleep"
                               ELSE IF t \in LostCbs THEN "cb" ELSE "none"]
    /\ ret = [t \in Tasks |-> <<>>]
    /\ ready = <<>>
    /\ mustCancel = [t \in Tasks |-> FALSE]
    /\ c_retry = FALSE /\ c_fast = FALSE /\ c_server = NoServer
    /\ s_iter = <<>> /\ s_i = 1 /\ s_pass = 1 /\ h_key = NoKey /\ h_ok = FALSE
    /\ msg = [t \in Tasks |-> NoMsg]
    /\ out = [t \in Tasks |-> None]
    /\ lsock = [t \in Tasks |-> NoSock]
    /\ atask = [t \in Tasks |-> NoTask]
    /\ sockst = [s \in Sockets |-> "unopened"]
    /\ inbuf = [s \in Sockets |-> <<>>]
    /\ eof = [s \in Sockets |-> FALSE]
    /\ arrived = [s \in Sockets |-> <<>>]
    /\ outlog = [s \in Sockets |-> <<>>]
    /\ nsock = 0
    /\ emitted = <<>>
    /\ discDone = FALSE /\ rlFail = NoSock /\ rlDisc = 0
    /\ result = None
    /\ probes = <<>> /\ scans = <<>> /\ fetches = 0
    /\ logged_in = FALSE /\ heartbeat_task = NoTask
    /\ futures = {}
    /\ waits = [n \in 1..MaxOn |-> NoWait]
    /\ dispatch = [snap |-> <<>>, calls |-> <<>>]

\* No pure function is under study.
NotApplied == arg = None /\ val = None

Init == Constructed /\ NotApplied /\ listeners = [e \in Topics |-> <<>>]

\* An exception (or a cancellation) leaves the application's call: the call
\* is abandoned where it stands.
Abandon ==
    /\ pc' = [pc EXCEPT ![App] = "idle"]
    /\ ret' = [ret EXCEPT ![App] = <<>>]
    /\ mustCancel' = [mustCancel EXCEPT ![App] = FALSE]
    /\ c_retry' = FALSE /\ c_fast' = FALSE /\ c_server' = NoServer
    /\ s_iter' = <<>> /\ s_i' = 1 /\ s_pass' = 1 /\ h_key' = NoKey /\ h_ok' = FALSE
    /\ msg' = [msg EXCEPT ![App] = NoMsg]
    /\ out' = [out EXCEPT ![App] = None]
    /\ lsock' = [lsock EXCEPT ![App] = NoSock]
    /\ atask' = [atask EXCEPT ![App] = NoTask]
    /\ probes' = <<>> /\ scans' = <<>> /\ fetches' = 0
AppAbort == Abandon /\ UNCHANGED ext

\* ------------------------------------------------------------ application
\* The application's task becomes runnable (a timer, user input).
AppWake ==
    /\ Quiet /\ pc[App] = "sleep" /\ ~InReady(App)
    /\ ready' = Append(ready, App)
    /\ UNCHANGED <<client, pc, ret, mustCancel, locals, net, obs>>
    /\ UNCHANGED bus

\* The application suspends on something of its own.
AppSleep ==
    /\ Running(App) /\ pc[App] = "idle"
    /\ Suspend(App, "sleep")
    /\ result' = None
    /\ UNCHANGED <<client, ret, mustCancel, locals, net, emitted, hsess, sel>>
    /\ UNCHANGED bus

AppIdle == Running(App) /\ pc[App] \in {"sleep", "idle"}

\* await client.connect(retry, use_fastest), on a client that is not
\* connected, with <<retry, use_fastest>> one of args.
AppConnect(args) ==
    /\ AppIdle /\ ~connected
    /\ \E a \in args : c_retry' = a[1] /\ c_fast' = a[2]
    /\ Goto(App, "c_top")
    /\ result' = None
    /\ UNCHANGED <<client, ret, ready, mustCancel, c_server, s_iter, s_i, s_pass,
                   h_key, h_ok, msg, out, lsock, atask, net, emitted, hsess, sel>>
    /\ UNCHANGED bus

\* await client.disconnect()
AppDisconnect ==
    /\ AppIdle
    /\ Call(App, "d_top", "a_disc_ret")
    /\ result' = None
    /\ UNCHANGED <<client, ready, mustCancel, locals, net, emitted, hsess, sel>>
    /\ UNCHANGED bus

AppDisconnectReturns ==
    /\ Running(App) /\ pc[App] = "a_disc_ret"
    /\ Goto(App, "idle")
    /\ discDone' = TRUE
    /\ UNCHANGED <<client, ret, ready, mustCancel, locals, net, emitted, rlFail, rlDisc,
                   result, sel>>
    /\ UNCHANGED bus

\* Somebody cancels the application's pending call (task.cancel()) while it
\* is suspended at one of the program points `at`: the future it waits on is
\* cancelled and the task is scheduled.
AppCancel(at) ==
    /\ Quiet /\ pc[App] \in at /\ ~mustCancel[App]
    /\ mustCancel' = [mustCancel EXCEPT ![App] = TRUE]
    /\ ready' = IF InReady(App) THEN ready ELSE Append(ready, App)
    /\ UNCHANGED <<client, pc, ret, locals, net, obs>>
    /\ UNCHANGED bus

\* I/O that a task is suspended on completes.
IOComplete(t) ==
    /\ Quiet /\ pc[t] \in IOWaitPcs /\ ~InReady(t)
    /\ ready' = Append(ready, t)
    /\ UNCHANGED <<client, pc, ret, mustCancel, locals, net, obs>>
    /\ UNCHANGED bus

\* CancelledError is thrown into a task at an await that nothing guards:
\* listen and send catch Exception only, connect catches OSError, ValueError
\* and TimeoutError only, wait_closed is guarded by `except Exception`.
CancelPcs == WaitPcs \ {"sleep", "d_await_task", "d_await_self", "cb"}
AppCancelled ==
    /\ Running(App) /\ mustCancel[App] /\ pc[App] \in CancelPcs
    /\ AppAbort
    /\ result' = "Cancelled"
    /\ UNCHANGED <<client, ready, net, emitted, hsess>>
    /\ UNCHANGED bus

\* ------------------------------------------------------- server selection
\* connect, the head of `while True`: server = await self._select_server(..)
ConnectTop ==
    /\ Running(App) /\ pc[App] = "c_top"
    /\ Call(App, "s_top", "c_selected")
    /\ UNCHANGED <<client, ready, mustCancel, locals, net, obs>>
    /\ UNCHANGED bus

\* _select_server: if not self.server_list: await self.get_server_list()
SelectTop ==
    /\ Running(App) /\ pc[App] = "s_top"
    /\ IF server_list = <<>> THEN Call(App, "g_top", "s_choose")
       ELSE Goto(App, "s_choose") /\ UNCHANGED ret
    /\ UNCHANGED <<client, ready, mustCancel, locals, net, obs>>
    /\ UNCHANGED bus

\* get_server_list up to the GET: the HTTP session is created on first use.
GetServerList ==
    /\ Running(App) /\ pc[App] = "g_top"
    /\ session' = IF session = None THEN "open" ELSE session
    /\ Suspend(App, "g_wait")
    /\ fetches' = fetches + 1 /\ UNCHANGED ext
    /\ UNCHANGED <<server_list, fastest_server, reader, writer, connected,
                   session_key, hmac_secret, loop_task, ret, mustCancel, locals,
                   net, emitted, hsess, result, probes, scans>>
    /\ UNCHANGED bus

\* get_server_list after the GET: the list is replaced by the response's (one
\* of lists), or
\* an aiohttp.ClientError is caught and the list stays as it was.
GetServerListDone(lists) ==
    /\ Resumes(App, "g_wait")
    /\ \/ \E l \in lists : server_list' = l
       \/ UNCHANGED server_list
    /\ Return(App)
    /\ UNCHANGED <<session, fastest_server, reader, writer, connected, session_key,
                   hmac_secret, loop_task, ready, mustCancel, locals, net, obs>>
    /\ UNCHANGED bus

\* A ranking that lets a later endpoint replace one of the same latency.
RECURSIVE FastestOfLast(_, _, _, _)
FastestOfLast(list, lat, i, best) ==
    IF i > Len(list) THEN best
    ELSE FastestOfLast(list, lat, i + 1,
                       IF lat[i] <= best[2] /\ lat[i] < Inf
                       THEN <<list[i], lat[i]>> ELSE best)

\* _find_fastest_server's loop over zip(server_list, latencies): the first
\* endpoint with the strictly smallest latency.
RECURSIVE FastestOf(_, _, _, _)
FastestOf(list, lat, i, best) ==
    IF i > Len(list) THEN best
    ELSE FastestOf(list, lat, i + 1,
                   IF lat[i] < best[2] THEN <<list[i], lat[i]>> ELSE best)

\* _select_server after the first fetch: the cached or ranked fastest
\* endpoint, or the start of the scan of the list.
SelectChoose ==
    /\ Running(App) /\ pc[App] = "s_choose"
    /\ IF c_fast \/ fastest_server[1] # NoServer
       THEN /\ IF fastest_server[1] # NoServer
               THEN /\ c_server' = fastest_server[1]
                    /\ Return(App)
                    /\ UNCHANGED <<fastest_server, ready>>
               ELSE IF server_list = <<>>
                    THEN /\ fastest_server' = <<NoServer, Inf>>
                         /\ c_server' = NoServer
                         /\ Return(App)
                         /\ UNCHANGED ready
                    ELSE /\ Suspend(App, "f_wait")
                         /\ UNCHANGED <<fastest_server, c_server, ret>>
            /\ UNCHANGED <<s_iter, s_i, s_pass, scans>>
       ELSE /\ s_iter' = server_list /\ s_i' = 1 /\ s_pass' = 1
            /\ scans' = <<server_list>>
            /\ Goto(App, "s_loop")
            /\ UNCHANGED <<fastest_server, c_server, ret, ready>>
    /\ UNCHANGED <<session, server_list, reader, writer, connected, session_key,
                   hmac_secret, loop_task, mustCancel, c_retry, c_fast, h_key, h_ok,
                   msg, out, lsock, atask, net, emitted, hsess, result, probes,
                   fetches, ext>>
    /\ UNCHANGED bus

\* _find_fastest_server after gather: every endpoint has its latency, one of
\* lats.
FindFastestDone(lats) ==
    /\ Resumes(App, "f_wait")
    /\ \E lat \in [1..Len(server_list) -> lats] :
         /\ fastest_server' = FastestOf(server_list, lat, 1, <<NoServer, Inf>>)
         /\ c_server' = fastest_server'[1]
         /\ probes' = [i \in 1..Len(server_list) |->
                         [ep |-> server_list[i], lat |-> lat[i]]]
    /\ Return(App)
    /\ UNCHANGED <<session, server_list, reader, writer, connected, session_key,
                   hmac_secret, loop_task, ready, mustCancel, c_retry, c_fast,
                   s_iter, s_i, s_pass, h_key, h_ok, msg, out, lsock, atask, net,
                   emitted, hsess, result, scans, fetches, ext>>
    /\ UNCHANGED bus

\* _select_server: `for host, port in self.server_list`, first and second
\* pass; between them the list is fetched again; after them, None.
SelectLoop ==
    /\ Running(App) /\ pc[App] = "s_loop"
    /\ IF s_i <= Len(s_iter)
       THEN Suspend(App, "p_wait") /\ UNCHANGED <<ret, c_server>>
       ELSE IF s_pass = 1
            THEN Call(App, "g_top", "s_refetched") /\ UNCHANGED <<ready, c_server>>
            ELSE c_server' = NoServer /\ Return(App) /\ UNCHANGED ready
    /\ UNCHANGED <<client, mustCancel, c_retry, c_fast, s_iter, s_i, s_pass, h_key,
                   h_ok, msg, out, lsock, atask, net, obs>>
    /\ UNCHANGED bus

SelectRefetched ==
    /\ Running(App) /\ pc[App] = "s_refetched"
    /\ s_iter' = server_list /\ s_i' = 1 /\ s_pass' = 2
    /\ scans' = Append(scans, server_list)
    /\ Goto(App, "s_loop")
    /\ UNCHANGED <<client, ret, ready, mustCancel, c_retry, c_fast, c_server, h_key,
                   h_ok, msg, out, lsock, atask, net, emitted, hsess, result,
                   probes, fetches, ext>>
    /\ UNCHANGED bus

\* A scan that takes the endpoint under the cursor whatever its latency.
ProbeDoneAny ==
    /\ Resumes(App, "p_wait")
    /\ \E lat \in Latencies :
         /\ probes' = Append(probes, [ep |-> s_iter[s_i], lat |-> lat])
         /\ c_server' = s_iter[s_i] /\ Return(App) /\ UNCHANGED s_i
    /\ UNCHANGED <<client, ready, mustCancel, c_retry, c_fast, s_iter, s_pass, h_key,
                   h_ok, msg, out, lsock, atask, net, emitted, hsess, result, scans,
                   fetches, ext>>
    /\ UNCHANGED bus

\* _test_server_latency returned for the endpoint under the cursor.
ProbeDone ==
    /\ Resumes(App, "p_wait")
    /\ \E lat \in Latencies :
         /\ probes' = Append(probes, [ep |-> s_iter[s_i], lat |-> lat])
         /\ IF lat < Inf
            THEN c_server' = s_iter[s_i] /\ Return(App) /\ UNCHANGED s_i
            ELSE s_i' = s_i + 1 /\ Goto(App, "s_loop") /\ UNCHANGED <<ret, c_server>>
    /\ UNCHANGED <<client, ready, mustCancel, c_retry, c_fast, s_iter, s_pass, h_key,
                   h_ok, msg, out, lsock, atask, net, emitted, hsess, result, scans,
                   fetches, ext>>
    /\ UNCHANGED bus

\* ---------------------------------------------------------------- connect
\* The streams the client holds no reference to any more are garbage: what
\* they buffered is gone with them.
Held(buf, r, empty) == [s \in Sockets |-> IF s = r THEN buf[s] ELSE empty]

\* connect after _select_server: no server, or open_connection is awaited.
\* connect returns to the application (OK after a handshake, ConnectFailed
\* otherwise); its frame is gone.
ConnectReturns ==
    /\ Goto(App, "idle")
    /\ c_retry' = FALSE /\ c_fast' = FALSE
    /\ result' = "ConnectFailed"

ConnectSelected ==
    /\ Running(App) /\ pc[App] = "c_selected"
    /\ IF c_server = NoServer
       THEN ConnectReturns /\ UNCHANGED ready
       ELSE Suspend(App, "c_open_wait") /\ UNCHANGED <<c_retry, c_fast, result>>
    /\ s_iter' = <<>> /\ s_i' = 1 /\ s_pass' = 1
    /\ probes' = <<>> /\ scans' = <<>> /\ fetches' = 0 /\ UNCHANGED ext
    /\ UNCHANGED <<client, ret, mustCancel, c_server, h_key, h_ok, msg, out, lsock,
                   atask, net, emitted, hsess>>
    /\ UNCHANGED bus

\* open_connection returned a new connection, which replaces reader and
\* writer and on which the handshake starts,
ConnectOpened ==
    /\ Resumes(App, "c_open_wait")
    /\ nsock < MaxSockets
    /\ nsock' = nsock + 1
    /\ reader' = nsock' /\ writer' = nsock'
    /\ sockst' = [sockst EXCEPT ![nsock'] = "open"]
    /\ inbuf' = Held(inbuf, nsock', <<>>)
    /\ arrived' = Held(arrived, nsock', <<>>)
    /\ outlog' = Held(outlog, nsock', <<>>)
    /\ eof' = Held(eof, nsock', FALSE)
    /\ emitted' = <<>>
    /\ c_server' = NoServer
    /\ Goto(App, "h_top")
    /\ UNCHANGED <<session, server_list, fastest_server, connected, session_key,
                   hmac_secret, loop_task, ret, ready, mustCancel, c_retry, c_fast,
                   s_iter, s_i, s_pass, h_key, h_ok, msg, out, lsock, atask, hobs>>
    /\ UNCHANGED bus

\* or raised OSError, ValueError or TimeoutError.
ConnectRefused ==
    /\ Resumes(App, "c_open_wait")
    /\ IF c_retry THEN Goto(App, "c_top") /\ UNCHANGED <<c_retry, c_fast, result>>
       ELSE ConnectReturns
    /\ c_server' = NoServer
    /\ UNCHANGED <<client, ret, ready, mustCancel, s_iter, s_i, s_pass, h_key, h_ok,
                   msg, out, lsock, atask, net, emitted, hsess, sel>>
    /\ UNCHANGED bus

\* connect after the handshake: the session runs, or it is torn down.
ConnectHandshakeDone ==
    /\ Running(App) /\ pc[App] = "c_hs_done"
    /\ IF h_ok
       THEN /\ connected' = TRUE
            /\ loop_task' = RlTask(nsock)
            /\ pc' = [pc EXCEPT ![App] = "idle", ![RlTask(nsock)] = "rl_start"]
            /\ ready' = Append(ready, RlTask(nsock))
            /\ c_retry' = FALSE /\ c_fast' = FALSE
            /\ discDone' = FALSE /\ rlFail' = NoSock /\ rlDisc' = 0
            /\ result' = "OK"
            /\ UNCHANGED ret
       ELSE /\ Call(App, "d_top", "c_after_disc")
            /\ UNCHANGED <<connected, loop_task, ready, c_retry, c_fast, hsess,
                           result>>
    /\ h_key' = NoKey /\ h_ok' = FALSE
    /\ UNCHANGED <<session, server_list, fastest_server, reader, writer,
                   session_key, hmac_secret, mustCancel, c_server, s_iter, s_i,
                   s_pass, msg, out, lsock, atask, net, emitted, sel>>
    /\ UNCHANGED bus

\* connect after the disconnect that follows a failed handshake.
ConnectAfterDisconnect ==
    /\ Running(App) /\ pc[App] = "c_after_disc"
    /\ IF c_retry THEN Goto(App, "c_top") /\ UNCHANGED <<c_retry, c_fast, result>>
       ELSE ConnectReturns
    /\ discDone' = TRUE
    /\ UNCHANGED <<client, ret, ready, mustCancel, c_server, s_iter, s_i, s_pass,
                   h_key, h_ok, msg, out, lsock, atask, net, emitted, rlFail, rlDisc,
                   sel>>
    /\ UNCHANGED bus

\* ----------------------------------------------------------------- listen
Prefix16(key) == SubSeq(key, 1, 1)

\* What listen makes of the payload of a frame read on connection s: the
\* payload itself before a key is installed, its plaintext when it decrypts
\* under the installed key (and, with an HMAC secret, verifies), and no
\* message when decryption raises.
Decrypted(f, s) ==
    IF session_key = NoKey
    THEN IF f.enc THEN Frame("garbage", "Unknown", 0, <<>>, FALSE) ELSE f
    ELSE IF /\ f.enc /\ f.k # "tamper" /\ session_key = KeyOf(s)
            /\ hmac_secret \in {NoKey, Prefix16(KeyOf(s))}
         THEN [f EXCEPT !.enc = FALSE]
         ELSE NoMsg

\* The frame at the head of the stream of s is read: a wrong magic gives no
\* message, otherwise the payload is decrypted when a key is installed.
TakeFrame(t, s) ==
    LET f == Head(inbuf[s]) IN
    /\ inbuf' = [inbuf EXCEPT ![s] = Tail(@)]
    /\ msg' = [msg EXCEPT ![t] = IF f.k = "badmagic" THEN NoMsg ELSE Decrypted(f, s)]

\* listen up to its first read: nothing to read from, a reader that another
\* coroutine is waiting on (RuntimeError), a buffered frame, end of stream
\* (IncompleteReadError), or the wait for data.
Listen(t) ==
    /\ Running(t) /\ pc[t] = "l_top"
    /\ IF reader = NoSock
          \/ (\E u \in Tasks : pc[u] = "l_wait" /\ lsock[u] = reader /\ ~InReady(u))
          \/ (inbuf[reader] = <<>> /\ eof[reader])
       THEN /\ msg' = [msg EXCEPT ![t] = NoMsg]
            /\ Return(t)
            /\ UNCHANGED <<ready, lsock, inbuf>>
       ELSE IF inbuf[reader] # <<>>
            THEN /\ TakeFrame(t, reader)
                 /\ Return(t)
                 /\ UNCHANGED <<ready, lsock>>
            ELSE /\ lsock' = [lsock EXCEPT ![t] = reader]
                 /\ Suspend(t, "l_wait")
                 /\ UNCHANGED <<ret, msg, inbuf>>
    /\ UNCHANGED <<client, mustCancel, c_retry, c_fast, c_server, s_iter, s_i, s_pass,
                   h_key, h_ok, out, atask, sockst, eof, arrived, outlog, nsock, emitted, hobs>>
    /\ UNCHANGED bus

\* listen after the wait: data or end of stream has come.  self.reader is
\* read again for the rest of the frame: it may have been cleared or replaced.
ListenWoken(t) ==
    /\ Resumes(t, "l_wait")
    /\ LET s == lsock[t] IN
       IF reader = s /\ inbuf[s] = <<>> /\ ~eof[s]
       THEN \* another reader took the data: wait again
            /\ ready' = Tail(ready)
            /\ UNCHANGED <<pc, ret, msg, inbuf, lsock>>
       ELSE /\ IF reader # s \/ inbuf[s] = <<>>
               THEN msg' = [msg EXCEPT ![t] = NoMsg] /\ UNCHANGED <<inbuf>>
               ELSE TakeFrame(t, s)
            /\ lsock' = [lsock EXCEPT ![t] = NoSock]
            /\ Return(t)
            /\ UNCHANGED ready
    /\ UNCHANGED <<client, mustCancel, c_retry, c_fast, c_server, s_iter, s_i,
                   s_pass, h_key, h_ok, out, atask, sockst, eof, arrived,
                   outlog, nsock, emitted, hobs>>
    /\ UNCHANGED bus

\* ------------------------------------------------------------------- send
\* send: without a writer nothing is written; the payload is encrypted when a
\* session key is installed; the frame is written; drain returns at once or
\* suspends.
Send(t) ==
    /\ Running(t) /\ pc[t] = "w_top"
    /\ IF writer = NoSock
       THEN Return(t) /\ UNCHANGED <<ready, outlog>>
       ELSE /\ outlog' = [outlog EXCEPT ![writer] =
                            Append(@, [id |-> out[t], enc |-> session_key # NoKey])]
            /\ \/ Return(t) /\ UNCHANGED ready
               \/ Suspend(t, "w_drain") /\ UNCHANGED ret
    /\ out' = [out EXCEPT ![t] = None]
    /\ UNCHANGED <<client, mustCancel, c_retry, c_fast, c_server, s_iter, s_i, s_pass,
                   h_key, h_ok, msg, lsock, atask, sockst, inbuf, eof, arrived, nsock, emitted, hobs>>
    /\ UNCHANGED bus

\* drain returned (or raised, which send catches).
SendDrained(t) ==
    /\ Resumes(t, "w_drain")
    /\ Return(t)
    /\ UNCHANGED <<client, ready, mustCancel, locals, net, obs>>
    /\ UNCHANGED bus

\* -------------------------------------------------------------- handshake
\* perform_handshake: without a writer it fails, else it reads a frame.
HandshakeTop ==
    /\ Running(App) /\ pc[App] = "h_top"
    /\ IF writer = NoSock
       THEN h_ok' = FALSE /\ Goto(App, "c_hs_done") /\ UNCHANGED ret
       ELSE Call(App, "l_top", "h_got1") /\ UNCHANGED h_ok
    /\ UNCHANGED <<client, ready, mustCancel, c_retry, c_fast, c_server, s_iter, s_i,
                   s_pass, h_key, msg, out, lsock, atask, net, obs>>
    /\ UNCHANGED bus

\* perform_handshake after the first read: SteamPacket.parse raises on a
\* frame too short for a message id; anything but a ChannelEncryptRequest
\* fails; else the session key is drawn and the response is sent.
HandshakeRequest ==
    /\ Running(App) /\ pc[App] = "h_got1"
    /\ IF msg[App].k = "short"
       THEN AppAbort /\ result' = "Raised"
       ELSE /\ IF msg[App] = NoMsg \/ msg[App].id # "ChannelEncryptRequest"
               THEN /\ h_ok' = FALSE /\ Goto(App, "c_hs_done")
                    /\ UNCHANGED <<ret, h_key, out>>
               ELSE /\ h_key' = KeyOf(nsock)
                    /\ out' = [out EXCEPT ![App] = "ChannelEncryptResponse"]
                    /\ Call(App, "w_top", "h_sent")
                    /\ UNCHANGED h_ok
            /\ msg' = [msg EXCEPT ![App] = NoMsg]
            /\ UNCHANGED <<mustCancel, c_retry, c_fast, c_server, s_iter, s_i,
                           s_pass, lsock, atask, result, sel>>
    /\ UNCHANGED <<client, ready, net, emitted, hsess>>
    /\ UNCHANGED bus

\* perform_handshake after send: the second read.
HandshakeSent ==
    /\ Running(App) /\ pc[App] = "h_sent"
    /\ Call(App, "l_top", "h_got2")
    /\ UNCHANGED <<client, ready, mustCancel, locals, net, obs>>
    /\ UNCHANGED bus

\* perform_handshake after the second read: anything but a
\* ChannelEncryptResult fails; else the key and the HMAC secret are installed.
HandshakeResultOf(m) ==
    IF m = NoMsg \/ m.id # "ChannelEncryptResult" THEN "fail" ELSE "ok"

\* A handshake that installs the session key and leaves the HMAC secret.
HandshakeResultKeyOnly ==
    /\ Running(App) /\ pc[App] = "h_got2"
    /\ IF msg[App].k = "short"
       THEN /\ AppAbort /\ result' = "Raised"
            /\ UNCHANGED <<session_key, hmac_secret>>
       ELSE /\ h_ok' = (HandshakeResultOf(msg[App]) = "ok")
            /\ IF h_ok'
               THEN /\ session_key' = h_key
                    /\ UNCHANGED hmac_secret
               ELSE UNCHANGED <<session_key, hmac_secret>>
            /\ Goto(App, "c_hs_done")
            /\ msg' = [msg EXCEPT ![App] = NoMsg]
            /\ UNCHANGED <<ret, mustCancel, c_retry, c_fast, c_server, s_iter,
                           s_i, s_pass, h_key, out, lsock, atask, result, sel>>
    /\ UNCHANGED <<session, server_list, fastest_server, reader, writer, connected,
                   loop_task, ready, net, emitted, hsess>>
    /\ UNCHANGED bus

\* A handshake that installs the whole session key as the HMAC secret.
HandshakeResultWholeKey ==
    /\ Running(App) /\ pc[App] = "h_got2"
    /\ IF msg[App].k = "short"
       THEN /\ AppAbort /\ result' = "Raised"
            /\ UNCHANGED <<session_key, hmac_secret>>
       ELSE /\ h_ok' = (HandshakeResultOf(msg[App]) = "ok")
            /\ IF h_ok'
               THEN /\ session_key' = h_key
                    /\ hmac_secret' = h_key
               ELSE UNCHANGED <<session_key, hmac_secret>>
            /\ Goto(App, "c_hs_done")
            /\ msg' = [msg EXCEPT ![App] = NoMsg]
            /\ UNCHANGED <<ret, mustCancel, c_retry, c_fast, c_server, s_iter,
                           s_i, s_pass, h_key, out, lsock, atask, result, sel>>
    /\ UNCHANGED <<session, server_list, fastest_server, reader, writer, connected,
                   loop_task, ready, net, emitted, hsess>>
    /\ UNCHANGED bus

HandshakeResult ==
    /\ Running(App) /\ pc[App] = "h_got2"
    /\ IF msg[App].k = "short"
       THEN /\ AppAbort /\ result' = "Raised"
            /\ UNCHANGED <<session_key, hmac_secret>>
       ELSE /\ h_ok' = (HandshakeResultOf(msg[App]) = "ok")
            /\ IF h_ok'
               THEN /\ session_key' = h_key
                    /\ hmac_secret' = Prefix16(h_key)
               ELSE UNCHANGED <<session_key, hmac_secret>>
            /\ Goto(App, "c_hs_done")
            /\ msg' = [msg EXCEPT ![App] = NoMsg]
            /\ UNCHANGED <<ret, mustCancel, c_retry, c_fast, c_server, s_iter,
                           s_i, s_pass, h_key, out, lsock, atask, result, sel>>
    /\ UNCHANGED <<session, server_list, fastest_server, reader, writer, connected,
                   loop_task, ready, net, emitted, hsess>>
    /\ UNCHANGED bus

\* ------------------------------------------------------------- disconnect
\* All orders of a set of tasks (the callbacks of one future run in the
\* order in which they were added, which the model does not record).
Orders(S) == {q \in [1..Cardinality(S) -> S] : \A i, j \in DOMAIN q : q[i] = q[j] => i = j}

\* A disconnect that leaves `connected` as it is while it cancels the read
\* loop (the flag cleared last).
DisconnectFlagLast(t) ==
    /\ Running(t) /\ pc[t] = "d_top"
    /\ LET lt == loop_task IN
       IF lt = NoTask \/ (lt # t /\ pc[lt] = "done")
       THEN Goto(t, "d_after_loop") /\ UNCHANGED <<ready, mustCancel, atask>>
       ELSE IF lt = t
            THEN /\ mustCancel' = [mustCancel EXCEPT ![t] = TRUE]
                 /\ Goto(t, "d_await_self")
                 /\ ready' = Append(Tail(ready), t)
                 /\ UNCHANGED atask
            ELSE /\ mustCancel' = [mustCancel EXCEPT ![lt] = TRUE]
                 /\ atask' = [atask EXCEPT ![t] = lt]
                 /\ Goto(t, "d_await_task")
                 /\ ready' = IF InReady(lt) THEN Tail(ready)
                             ELSE Append(Tail(ready), lt)
    /\ UNCHANGED <<client, ret, c_retry, c_fast, c_server, s_iter, s_i, s_pass, h_key,
                   h_ok, msg, out, lsock, net, obs, bus>>

\* A disconnect that only clears `connected` and leaves the rest to the read
\* loop's `while self.connected`.
DisconnectLazy(t) ==
    /\ Running(t) /\ pc[t] = "d_top"
    /\ connected' = FALSE
    /\ Return(t)
    /\ UNCHANGED <<session, server_list, fastest_server, reader, writer, session_key,
                   hmac_secret, loop_task, ready, mustCancel, locals, net, obs, bus>>

\* disconnect up to `await self._loop_task`: SteamClient.disconnect stops the
\* heartbeat, then CMClient.disconnect runs: connected is cleared, the read
\* loop is cancelled; awaiting it suspends unless it is done; a task that
\* awaits itself is rescheduled (by call_soon) with an error.
Disconnect(t) ==
    /\ Running(t) /\ pc[t] = "d_top"
    /\ heartbeat_task' = NoTask
    /\ connected' = FALSE
    /\ LET lt == loop_task IN
       IF lt = NoTask \/ (lt # t /\ pc[lt] = "done")
       THEN Goto(t, "d_after_loop") /\ UNCHANGED <<ready, mustCancel, atask>>
       ELSE IF lt = t
            THEN /\ mustCancel' = [mustCancel EXCEPT ![t] = TRUE]
                 /\ Goto(t, "d_await_self")
                 /\ ready' = Append(Tail(ready), t)
                 /\ UNCHANGED atask
            ELSE /\ mustCancel' = [mustCancel EXCEPT ![lt] = TRUE]
                 /\ atask' = [atask EXCEPT ![t] = lt]
                 /\ Goto(t, "d_await_task")
                 /\ ready' = IF InReady(lt) THEN Tail(ready)
                             ELSE Append(Tail(ready), lt)
    /\ UNCHANGED <<session, server_list, fastest_server, reader, writer, session_key,
                   hmac_secret, loop_task, ret, c_retry, c_fast, c_server, s_iter,
                   s_i, s_pass, h_key, h_ok, msg, out, lsock, net, emitted, hsess, result,
                   probes, scans, fetches, logged_in, arg, val>>
    /\ UNCHANGED bus

\* disconnect after the await of the read loop, which ended or whose await
\* raised CancelledError (`except asyncio.CancelledError: pass`).
DisconnectLoopAwaited(t) ==
    /\ Running(t) /\ pc[t] \in {"d_await_task", "d_await_self"}
    /\ pc[t] = "d_await_self" => mustCancel[t]
    /\ mustCancel' = [mustCancel EXCEPT ![t] = FALSE]
    /\ atask' = [atask EXCEPT ![t] = NoTask]
    /\ Goto(t, "d_after_loop")
    /\ UNCHANGED <<client, ret, ready, c_retry, c_fast, c_server, s_iter, s_i, s_pass,
                   h_key, h_ok, msg, out, lsock, net, obs>>
    /\ UNCHANGED bus

\* A disconnect that drops the writer and the reader without closing the
\* transport.
DisconnectCloseLeak(t) ==
    /\ Running(t) /\ pc[t] = "d_after_loop"
    /\ loop_task' = NoTask
    /\ writer' = NoSock /\ reader' = NoSock
    /\ inbuf' = Held(inbuf, NoSock, <<>>)
    /\ arrived' = Held(arrived, NoSock, <<>>)
    /\ outlog' = Held(outlog, NoSock, <<>>)
    /\ eof' = Held(eof, NoSock, FALSE)
    /\ emitted' = <<>>
    /\ Goto(t, "d_session")
    /\ UNCHANGED <<session, server_list, fastest_server, connected, session_key,
                   hmac_secret, ret, ready, mustCancel, locals, sockst, nsock, hobs,
                   bus>>

\* disconnect from `self._loop_task = None` to wait_closed: the transport is
\* closed (its connection_lost is scheduled) and its closing is awaited.
DisconnectClose(t) ==
    /\ Running(t) /\ pc[t] = "d_after_loop"
    /\ loop_task' = NoTask
    /\ IF writer = NoSock
       THEN /\ Goto(t, "d_session")
            /\ UNCHANGED <<reader, writer, sockst, lsock, ready, inbuf, arrived,
                           outlog, eof, emitted>>
       ELSE IF sockst[writer] = "closed"
            THEN /\ writer' = NoSock /\ reader' = NoSock
                 /\ inbuf' = Held(inbuf, NoSock, <<>>)
                 /\ arrived' = Held(arrived, NoSock, <<>>)
                 /\ outlog' = Held(outlog, NoSock, <<>>)
                 /\ eof' = Held(eof, NoSock, FALSE)
                 /\ emitted' = <<>>
                 /\ Goto(t, "d_session")
                 /\ UNCHANGED <<sockst, lsock, ready>>
            ELSE /\ sockst' = [sockst EXCEPT ![writer] = "closing"]
                 /\ lsock' = [lsock EXCEPT ![t] = writer]
                 /\ Goto(t, "d_wait_closed")
                 /\ ready' = IF sockst[writer] = "open"
                             THEN Append(Tail(ready), LostCb(writer))
                             ELSE Tail(ready)
                 /\ UNCHANGED <<reader, writer, inbuf, arrived, outlog, eof,
                                emitted>>
    /\ UNCHANGED <<session, server_list, fastest_server, connected, session_key,
                   hmac_secret, ret, mustCancel, c_retry, c_fast, c_server, s_iter,
                   s_i, s_pass, h_key, h_ok, msg, out, atask, nsock, hobs>>
    /\ UNCHANGED bus

\* The transport's connection_lost callback: the connection is closed, its
\* stream is at its end, and those waiting in wait_closed are woken.
ConnectionLost(s) ==
    /\ Running(LostCb(s))
    /\ sockst' = [sockst EXCEPT ![s] = "closed"]
    /\ eof' = [eof EXCEPT ![s] = (reader = s)]
    /\ \E q \in Orders({t \in Tasks : /\ pc[t] \in {"d_wait_closed", "l_wait"}
                                        /\ lsock[t] = s /\ ~InReady(t)}) :
         ready' = Tail(ready) \o q
    /\ UNCHANGED <<client, pc, ret, mustCancel, locals, inbuf, arrived, outlog,
                   nsock, obs>>
    /\ UNCHANGED bus

\* disconnect after wait_closed: writer and reader are dropped.
DisconnectClosed(t) ==
    /\ Resumes(t, "d_wait_closed")
    /\ writer' = NoSock /\ reader' = NoSock
    /\ lsock' = [lsock EXCEPT ![t] = NoSock]
    /\ inbuf' = Held(inbuf, NoSock, <<>>)
    /\ arrived' = Held(arrived, NoSock, <<>>)
    /\ outlog' = Held(outlog, NoSock, <<>>)
    /\ eof' = Held(eof, NoSock, FALSE)
    /\ emitted' = <<>>
    /\ Goto(t, "d_session")
    /\ UNCHANGED <<session, server_list, fastest_server, connected, session_key,
                   hmac_secret, loop_task, ret, ready, mustCancel, c_retry, c_fast,
                   c_server, s_iter, s_i, s_pass, h_key, h_ok, msg, out, atask,
                   sockst, nsock, hobs>>
    /\ UNCHANGED bus

\* A disconnect that returns without closing the HTTP session.
DisconnectSessionKept(t) ==
    /\ Running(t) /\ pc[t] = "d_session"
    /\ Return(t)
    /\ UNCHANGED <<client, ready, mustCancel, locals, net, obs>>
    /\ UNCHANGED bus

\* disconnect, `if self.session: await self.session.close()`, which returns
\* at once or suspends.
DisconnectSession(t) ==
    /\ Running(t) /\ pc[t] = "d_session"
    /\ IF session = None
       THEN Return(t) /\ UNCHANGED <<session, ready>>
       ELSE \/ session' = None /\ Return(t) /\ UNCHANGED ready
            \/ Suspend(t, "d_sess_wait") /\ UNCHANGED <<session, ret>>
    /\ UNCHANGED <<server_list, fastest_server, reader, writer, connected, session_key,
                   hmac_secret, loop_task, mustCancel, locals, net, obs>>
    /\ UNCHANGED bus

DisconnectSessionClosed(t) ==
    /\ Resumes(t, "d_sess_wait")
    /\ session' = None
    /\ Return(t)
    /\ UNCHANGED <<server_list, fastest_server, reader, writer, connected, session_key,
                   hmac_secret, loop_task, ready, mustCancel, locals, net, obs>>
    /\ UNCHANGED bus

\* ---------------------------------------------------------------- packet.py
\* Frames as bytes. data[a:b] of a bytes object (0-based, clipped to the end).
Min(a, b) == IF a <= b THEN a ELSE b
Slice(data, a, b) == SubSeq(data, a + 1, Min(b, Len(data)))
\* struct.pack("<I", n) and struct.unpack_from("<I", data, off)
Le32(n) == <<n % 256, (n \div 256) % 256, (n \div 65536) % 256, (n \div 16777216) % 256>>
U32(data, off) ==
    data[off + 1] + 256 * data[off + 2] + 65536 * data[off + 3]
        + 16777216 * data[off + 4]
\* The leading u32 with PROTOBUF_MASK (bit 31) set: the top byte carries it.
Masked(n) == [Le32(n) EXCEPT ![4] = @ + 128]
\* ProtobufManager.is_protobuf and remove_mask on the leading u32 of data
is_protobuf(data) == data[4] >= 128
remove_mask(data) ==
    data[1] + 256 * data[2] + 65536 * data[3] + 16777216 * (data[4] % 128)

\* What a call raises, in place of the value it would return.
Raise(e) == [error |-> e]
IsErr(x) == "error" \in DOMAIN x
StructError == Raise("struct.error")
DecodeError == Raise("DecodeError")
BadGzipFile == Raise("BadGzipFile")
BadZipFile == Raise("BadZipFile")
\* A bytes object where a message object may stand.
Bytes(b) == [raw |-> b]
IsBytes(x) == "raw" \in DOMAIN x

\* Message ids of the EMsg enumeration that the frames use, and an id that is
\* not in the enumeration.
Multi == 1
ClientHeartBeat == 703
ClientLogOnResponse == 751
ChannelEncryptRequest == 1303
EMsg == {Multi, ClientHeartBeat, ClientLogOnResponse, ChannelEncryptRequest}
UnknownId == 9
\* ProtobufManager.get_protobuf: the message class of an id, if there is one.
get_protobuf(emsg) ==
    CASE emsg = Multi -> "CMsgMulti"
      [] emsg = ClientHeartBeat -> "CMsgClientHeartBeat"
      [] emsg = ClientLogOnResponse -> "CMsgClientLogonResponse"
      [] OTHER -> None

\* Message.ParseFromString on a fresh message of class cls: field 1, a varint
\* (key 0x08), and field 2, length-delimited bytes (key 0x12); anything else
\* does not decode.
RECURSIVE Fields(_, _)
Fields(b, m) ==
    IF b = <<>> THEN m
    ELSE IF Len(b) >= 2 /\ b[1] = 8 /\ b[2] < 128
    THEN Fields(Slice(b, 2, Len(b)), [m EXCEPT !.f1 = b[2]])
    ELSE IF Len(b) >= 2 /\ b[1] = 18 /\ b[2] < 128 /\ Len(b) >= 2 + b[2]
    THEN Fields(Slice(b, 2 + b[2], Len(b)), [m EXCEPT !.f2 = Slice(b, 2, 2 + b[2])])
    ELSE DecodeError
ParseFromString(cls, b) == Fields(b, [cls |-> cls, f1 |-> 0, f2 |-> <<>>])
\* SerializeToString of a message with the two fields set
Serialized(f1, f2) ==
    (IF f1 = 0 THEN <<>> ELSE <<8, f1>>) \o (IF f2 = <<>> THEN <<>> ELSE <<18, Len(f2)>> \o f2)

\* MsgHdr(data): struct.unpack("<IQQ", data), which takes 20 bytes exactly. A
\* job id is kept as its eight bytes, lowest first.
MsgHdrSwapped(data) ==
    IF Len(data) # 20 THEN StructError
    ELSE [cls |-> "MsgHdr", emsg |-> U32(data, 0),
          target_job_id |-> Slice(data, 12, 20), source_job_id |-> Slice(data, 4, 12)]
MsgHdr(data) ==
    IF Len(data) # 20 THEN StructError
    ELSE [cls |-> "MsgHdr", emsg |-> U32(data, 0),
          target_job_id |-> Slice(data, 4, 12), source_job_id |-> Slice(data, 12, 20)]

\* SteamPacket.__init__: a packet with its header and body, or the exception
\* the constructor raises.
SteamPacket(emsg, data, proto) ==
    IF proto /\ emsg \in EMsg
    THEN IF Len(data) < 4 THEN StructError
         ELSE LET header_len == U32(data, 0)
                  header_data == Slice(data, 4, 4 + header_len)
                  rest == Slice(data, 4 + Len(header_data), Len(data))
                  header == ParseFromString("CMsgProtoBufHeader", header_data)
                  proto_class == get_protobuf(emsg)
                  body == IF proto_class # None THEN ParseFromString(proto_class, rest)
                          ELSE Bytes(rest)
              IN  IF IsErr(header) THEN header
                  ELSE IF IsErr(body) THEN body
                  ELSE [emsg |-> emsg, is_protobuf |-> proto, header |-> header,
                        body |-> body]
    ELSE LET header == MsgHdr(Le32(emsg) \o Slice(data, 0, 16))
         IN  IF IsErr(header) THEN header
             ELSE [emsg |-> emsg, is_protobuf |-> proto, header |-> header,
                   body |-> Bytes(Slice(data, 16, Len(data)))]
\* SteamPacket.parse
parse(data) ==
    IF Len(data) < 4 THEN StructError
    ELSE LET proto == is_protobuf(data)
             emsg_id == IF proto THEN remove_mask(data) ELSE U32(data, 0)
         IN  SteamPacket(emsg_id, Slice(data, 4, Len(data)), proto)

\* gzip and zipfile: the compressed form starts with the format's magic
\* number and carries the data transformed; decompressing anything else fails.
GzipMagic == <<31, 139>>
ZipMagic == <<80, 75>>
Shifted(d, k) == [i \in 1..Len(d) |-> (d[i] + k) % 256]
startswith(b, m) == Len(b) >= Len(m) /\ SubSeq(b, 1, Len(m)) = m
gzip_compress(d) == GzipMagic \o Shifted(d, 1)
gzip_decompress(b) ==
    IF startswith(b, GzipMagic) THEN Bytes(Shifted(Slice(b, 2, Len(b)), 255))
    ELSE BadGzipFile
zip_compress(d) == ZipMagic \o Shifted(d, 2)
zip_read(b) ==
    IF startswith(b, ZipMagic) THEN Bytes(Shifted(Slice(b, 2, Len(b)), 254))
    ELSE BadZipFile

\* The loop of unpack_multi, putting every packet before the ones read so far.
RECURSIVE UnpackLoopBackwards(_, _)
UnpackLoopBackwards(data, offset) ==
    IF offset >= Len(data) THEN [packets |-> <<>>]
    ELSE IF Len(data) - offset < 4 THEN StructError
    ELSE LET msg_len == U32(data, offset)
             msg_data == Slice(data, offset + 4, offset + 4 + msg_len)
             packet == parse(msg_data)
             rest == UnpackLoopBackwards(data, offset + 4 + msg_len)
         IN  IF IsErr(packet) THEN packet
             ELSE IF IsErr(rest) THEN rest
             ELSE [packets |-> rest.packets \o <<packet>>]

\* unpack_multi, the loop over the payload from offset on: the packets, or
\* what struct or parse raises.
RECURSIVE UnpackLoop(_, _)
UnpackLoop(data, offset) ==
    IF offset >= Len(data) THEN [packets |-> <<>>]
    ELSE IF Len(data) - offset < 4 THEN StructError
    ELSE LET msg_len == U32(data, offset)
             msg_data == Slice(data, offset + 4, offset + 4 + msg_len)
             packet == parse(msg_data)
             rest == UnpackLoop(data, offset + 4 + msg_len)
         IN  IF IsErr(packet) THEN packet
             ELSE IF IsErr(rest) THEN rest
             ELSE [packets |-> <<packet>> \o rest.packets]

\* SteamPacket.unpack_multi (a message object is true, so the body that is
\* not bytes is the CMsgMulti itself)
unpack_multi(packet) ==
    IF packet.emsg # Multi THEN [packets |-> <<>>]
    ELSE LET multi == IF IsBytes(packet.body)
                      THEN ParseFromString("CMsgMulti", packet.body.raw)
                      ELSE packet.body
         IN  IF IsErr(multi) THEN multi
             ELSE LET data == IF multi.f1 # 0
                              THEN IF startswith(multi.f2, ZipMagic)
                                   THEN zip_read(multi.f2)
                                   ELSE gzip_decompress(multi.f2)
                              ELSE Bytes(multi.f2)
                  IN  IF IsErr(data) THEN data ELSE UnpackLoop(data.raw, 0)

\* The packets unpack_multi's loop has read when it ends or raises.
RECURSIVE UnpackedBefore(_, _)
UnpackedBefore(data, offset) ==
    IF offset >= Len(data) \/ Len(data) - offset < 4 THEN <<>>
    ELSE LET msg_len == U32(data, offset)
             packet == parse(Slice(data, offset + 4, offset + 4 + msg_len))
         IN  IF IsErr(packet) THEN <<>>
             ELSE <<packet>> \o UnpackedBefore(data, offset + 4 + msg_len)

\* A read loop that emits every sub-packet as soon as it is unpacked: those
\* before a sub-frame that raises are emitted.
EmitsEager(message) ==
    LET packet == parse(message)
    IN  IF IsErr(packet) THEN <<>>
        ELSE IF packet.emsg = Multi
        THEN LET multi == IF IsBytes(packet.body)
                          THEN ParseFromString("CMsgMulti", packet.body.raw)
                          ELSE packet.body
                 data == IF multi.f1 # 0
                         THEN IF startswith(multi.f2, ZipMagic)
                              THEN zip_read(multi.f2)
                              ELSE gzip_decompress(multi.f2)
                         ELSE Bytes(multi.f2)
             IN  IF IsErr(multi) THEN <<>>
                 ELSE IF IsErr(data) THEN <<>>
                 ELSE LET subs == UnpackedBefore(data.raw, 0)
                      IN  [i \in DOMAIN subs |-> subs[i].emsg]
        ELSE <<packet.emsg>>

\* _read_loop, the body of the loop for a message received: the topics of
\* the events emitted, in order (an exception is logged and emits nothing).
Emits(message) ==
    LET packet == parse(message)
    IN  IF IsErr(packet) THEN <<>>
        ELSE IF packet.emsg = Multi
        THEN LET subs == unpack_multi(packet)
             IN  IF IsErr(subs) THEN <<>>
                 ELSE [i \in DOMAIN subs.packets |-> subs.packets[i].emsg]
        ELSE <<packet.emsg>>

\* -------------------------------------------------------------- read loop
\* A read loop that walks the sub-packets of a Multi from the last one.
EmitIdsBackwards(m) ==
    IF m.k = "multi" THEN [i \in DOMAIN m.subs |-> m.subs[Len(m.subs) + 1 - i]]
    ELSE IF m.k \in {"pkt", "garbage"} THEN <<m.id>>
    ELSE <<>>

\* The name a message id has as a topic of the emitter.
EventOf(emsg) ==
    CASE emsg = ClientLogOnResponse -> "A"
      [] emsg = ClientHeartBeat -> "B"
      [] emsg = Multi -> "Multi"
      [] OTHER -> "Unknown"

\* The message ids a parsed message is emitted under, in order: its own (the
\* number itself when it is not a known one), or those of the sub-packets of
\* a Multi; parse raises on a frame too short and on a protobuf body that does
\* not decode, which the read loop logs: nothing is emitted.  A frame given
\* by its bytes ("raw", the bytes in subs) is parsed and unpacked as such.
EmitIds(m) ==
    IF m.k = "raw" THEN [i \in DOMAIN Emits(m.subs) |-> EventOf(Emits(m.subs)[i])]
    ELSE IF m.k = "multi" THEN m.subs
    ELSE IF m.k \in {"pkt", "garbage"} THEN <<m.id>>
    ELSE <<>>

\* _read_loop, `while self.connected: message = await self.listen()`.
ReadLoopTop(t) ==
    /\ Running(t) /\ pc[t] \in {"rl_start", "rl_top"} /\ ~mustCancel[t]
    /\ IF connected
       THEN Call(t, "l_top", "rl_got") /\ UNCHANGED <<ready, mustCancel>>
       ELSE Finish(t)
    /\ UNCHANGED <<client, locals, net, obs>>
    /\ UNCHANGED bus

\* _read_loop after listen: a message is parsed and emitted (every sub-packet
\* of a Multi); no message ends the loop, after a disconnect when connected.
ReadLoopMessage(t) ==
    /\ Running(t) /\ pc[t] = "rl_got"
    /\ IF msg[t] # NoMsg
       THEN LET ids == EmitIds(msg[t])
                r == EmitAll(ids, listeners, <<>>, futures)
                spawned == AsyncCalls(r.calls)
                free == Sorted({n \in 1..MaxSubs : pc[SubTask(n)] = "none"})
                new == [i \in DOMAIN spawned |-> SubTask(free[i])]
                start == [i \in DOMAIN spawned |->
                            IF spawned[i].kind = "araise" THEN "r_start" ELSE "a_start"]
            IN  /\ Len(spawned) <= Len(free)
                /\ emitted' = emitted \o ids
                /\ listeners' = r.ls
                /\ futures' = r.done
                /\ waits' = Received(Settled(waits, listeners, ids, r.done \ futures, "match"),
                                      r.done \ futures, msg[t])
                /\ pc' = [u \in Entries |->
                            IF u = t THEN "rl_top"
                            ELSE IF u \in Range(new)
                                 THEN start[CHOOSE i \in DOMAIN new : new[i] = u]
                                 ELSE pc[u]]
                /\ ready' = ready \o new
                /\ UNCHANGED <<ret, mustCancel, connected, rlFail, rlDisc>>
       ELSE /\ IF connected
               THEN /\ Call(t, "d_top", "rl_exit")
                    /\ rlFail' = t.n /\ rlDisc' = rlDisc + 1
                    /\ UNCHANGED <<ready, mustCancel>>
               ELSE Finish(t) /\ UNCHANGED <<rlFail, rlDisc>>
            /\ UNCHANGED <<emitted, listeners, futures, waits, connected>>
    /\ msg' = [msg EXCEPT ![t] = NoMsg]
    /\ UNCHANGED <<session, server_list, fastest_server, reader, writer, session_key,
                   hmac_secret, loop_task, c_retry, c_fast, c_server, s_iter, s_i,
                   s_pass, h_key, h_ok, out, lsock, atask, net, discDone, dispatch,
                   result, sel>>

\* _read_loop, `break` after the disconnect.
ReadLoopExit(t) ==
    /\ Running(t) /\ pc[t] = "rl_exit"
    /\ Finish(t)
    /\ discDone' = TRUE
    /\ UNCHANGED <<client, locals, net, emitted, rlFail, rlDisc, result, sel>>
    /\ UNCHANGED bus

\* CancelledError is thrown into the read loop at an await: the task ends.
ReadLoopCancelled(t) ==
    /\ Running(t) /\ mustCancel[t] /\ pc[t] \in CancelPcs
    /\ Finish(t)
    /\ UNCHANGED <<client, locals, net, obs>>
    /\ UNCHANGED bus

\* ----------------------------------------------------------------- server
\* Tasks suspended in a read on connection s.
Readers(s) == {t \in Tasks : pc[t] = "l_wait" /\ lsock[t] = s /\ ~InReady(t)}

\* The server sends a frame on connection s: its ChannelEncryptResult after
\* the client's response, data after that (a frame sent earlier would wait in
\* the stream until then).
ServerSend(s, frames) ==
    /\ Quiet /\ sockst[s] = "open" /\ reader = s /\ ~eof[s]
    /\ Len(arrived[s]) < MaxFrames
    /\ Len(arrived[s]) = 1 => outlog[s] # <<>>
    /\ Len(arrived[s]) >= 2 => connected
    /\ \E f \in frames[IF Len(arrived[s]) < 2 THEN Len(arrived[s]) + 1 ELSE 3] :
         /\ inbuf' = [inbuf EXCEPT ![s] = Append(@, f)]
         /\ arrived' = [arrived EXCEPT ![s] = Append(@, f)]
    /\ \E q \in Orders(Readers(s)) : ready' = ready \o q
    /\ UNCHANGED <<client, pc, ret, mustCancel, locals, sockst, eof, outlog, nsock, obs>>
    /\ UNCHANGED bus

\* The server closes connection s: end of stream.
ServerClose(s) ==
    /\ Quiet /\ sockst[s] = "open" /\ reader = s /\ ~eof[s]
    /\ eof' = [eof EXCEPT ![s] = TRUE]
    /\ \E q \in Orders(Readers(s)) : ready' = ready \o q
    /\ UNCHANGED <<client, pc, ret, mustCancel, locals, sockst, inbuf, arrived, outlog,
                   nsock, obs>>
    /\ UNCHANGED bus

\* ------------------------------------------------------------ subscribers
\* The coroutine subscriber of the application, started by emit as a task of
\* its own: it answers the packet, `await client.send_protobuf_message(..)`,
\* which returns at once when the client is not connected.
\* The task of a subscriber ends; nothing holds it.
SubEnds(t) ==
    /\ pc' = [pc EXCEPT ![t] = "none"]
    /\ ready' = Tail(ready)

SubscriberStart(t) ==
    /\ Running(t) /\ pc[t] = "a_start"
    /\ IF connected
       THEN /\ out' = [out EXCEPT ![t] = "Reply"]
            /\ Call(t, "w_top", "a_sent")
            /\ UNCHANGED ready
       ELSE SubEnds(t) /\ UNCHANGED <<ret, out>>
    /\ UNCHANGED <<client, mustCancel, c_retry, c_fast, c_server, s_iter, s_i, s_pass,
                   h_key, h_ok, msg, lsock, atask, net, obs, bus>>

SubscriberSent(t) ==
    /\ Running(t) /\ pc[t] = "a_sent"
    /\ SubEnds(t)
    /\ UNCHANGED <<client, ret, mustCancel, locals, net, obs, bus>>

\* The task of a coroutine subscriber whose body raises: the exception stays
\* in the task, which ends.
SubscriberRaises(t) ==
    /\ Running(t) /\ pc[t] = "r_start"
    /\ SubEnds(t)
    /\ UNCHANGED <<client, ret, mustCancel, locals, net, obs, bus>>

\* await client.get_server_list() by the application.
AppFetch ==
    /\ AppIdle
    /\ Call(App, "g_top", "a_fetch_ret")
    /\ result' = None
    /\ UNCHANGED <<client, ready, mustCancel, locals, net, emitted, hsess, sel>>
    /\ UNCHANGED bus

AppFetchReturns ==
    /\ Running(App) /\ pc[App] = "a_fetch_ret"
    /\ Goto(App, "idle")
    /\ result' = "Returned"
    /\ fetches' = 0 /\ UNCHANGED ext
    /\ UNCHANGED <<client, ret, ready, mustCancel, locals, net, emitted, hsess,
                   probes, scans>>
    /\ UNCHANGED bus

\* await client.send_protobuf_message(emsg, message) by the application.
AppSendProtobuf ==
    /\ AppIdle
    /\ Goto(App, "sp_top")
    /\ result' = None
    /\ UNCHANGED <<client, ret, ready, mustCancel, locals, net, emitted, hsess, sel>>
    /\ UNCHANGED bus

\* send_protobuf_message: `if not self.connected:` the error is logged and the
\* call returns None; else the message is handed to send.
SendProtobuf ==
    /\ Running(App) /\ pc[App] = "sp_top"
    /\ IF ~connected
       THEN /\ Goto(App, "idle")
            /\ result' = "Returned"
            /\ UNCHANGED <<ret, out>>
       ELSE /\ writer # NoSock => Len(outlog[writer]) < MaxOut
            /\ out' = [out EXCEPT ![App] = "Request"]
            /\ Call(App, "w_top", "sp_sent")
            /\ UNCHANGED result
    /\ UNCHANGED <<client, ready, mustCancel, c_retry, c_fast, c_server, s_iter, s_i,
                   s_pass, h_key, h_ok, msg, lsock, atask, net, emitted, hsess, sel>>
    /\ UNCHANGED bus

\* send_protobuf_message after `await self.send(packet)`.
SendProtobufSent ==
    /\ Running(App) /\ pc[App] = "sp_sent"
    /\ Goto(App, "idle")
    /\ result' = "Returned"
    /\ UNCHANGED <<client, ret, ready, mustCancel, locals, net, emitted, hsess, sel>>
    /\ UNCHANGED bus

\* ------------------------------------------- the event bus used directly
\* emitter.on(event, callback)
BusOn(e, cb) ==
    /\ Len(listeners[e]) < MaxOn
    /\ listeners' = [listeners EXCEPT ![e] = Append(@, cb)]
    /\ UNCHANGED <<client, sched, locals, net, obs, futures, dispatch, waits>>

\* The listener of the n-th wait_for, wherever it is installed.
Listener(n) == {cb \in UNION {Range(listeners[x]) : x \in Topics} :
                  cb.kind \in WaitKinds /\ cb.n = n}

\* emitter.wait_for(event, timeout, check) up to its await, with the options
\* o (check: a predicate is given, timed: a timeout is given): a new future,
\* whose listener is registered; the caller waits.
BusWaitFor(e, n, opts) ==
    /\ Quiet
    /\ Len(listeners[e]) < MaxOn
    /\ Listener(n) = {}
    /\ waits[n].st \notin {"pending", "resolved", "expired"}
    /\ \E o \in opts :
         /\ listeners' = [listeners EXCEPT ![e] =
                            Append(@, Callback(IF o.check THEN "waitif" ELSE "wait", n))]
         /\ waits' = [waits EXCEPT ![n] =
                        [st |-> "pending", timed |-> o.timed, missed |-> FALSE, code |-> 0]]
    /\ futures' = futures \ {n}
    /\ UNCHANGED <<client, sched, locals, net, obs, dispatch>>

\* The future of wait_for n has its result: the caller resumes, and wait_for
\* returns the packet.
WaitReturns(n) ==
    /\ Quiet
    /\ waits[n].st = "resolved"
    /\ waits' = [waits EXCEPT ![n].st = "returned"]
    /\ UNCHANGED <<client, sched, locals, net, obs, listeners, futures, dispatch>>

\* The timeout of wait_for n passes before its future has a result:
\* asyncio.wait_for cancels the future.
WaitTimeout(n) ==
    /\ Quiet
    /\ waits[n].st = "pending" /\ waits[n].timed
    /\ futures' = futures \cup {n}
    /\ waits' = [waits EXCEPT ![n].st = "expired"]
    /\ UNCHANGED <<client, sched, locals, net, obs, listeners, dispatch>>

\* A wait_for that drops out on TimeoutError without removing its listener.
WaitTimedOutLeak(n) ==
    /\ Quiet
    /\ waits[n].st = "expired"
    /\ waits' = [waits EXCEPT ![n].st = "timeout"]
    /\ UNCHANGED <<client, sched, locals, net, obs, listeners, futures, dispatch>>

\* wait_for n resumes with TimeoutError: `except asyncio.TimeoutError:
\* self.remove_listener(event, listener); raise`.
WaitTimedOut(n) ==
    /\ Quiet
    /\ waits[n].st = "expired"
    /\ listeners' = [e \in Topics |->
                       IF Listener(n) \cap Range(listeners[e]) # {}
                       THEN Remove(listeners[e], CHOOSE cb \in Listener(n) : TRUE)
                       ELSE listeners[e]]
    /\ waits' = [waits EXCEPT ![n].st = "timeout"]
    /\ UNCHANGED <<client, sched, locals, net, obs, futures, dispatch>>

\* The caller of wait_for n is cancelled while it waits: CancelledError
\* leaves wait_for, which catches TimeoutError only; the future is cancelled
\* with the caller's wait.
WaitCancel(n) ==
    /\ Quiet
    /\ waits[n].st = "pending"
    /\ futures' = futures \cup {n}
    /\ waits' = [waits EXCEPT ![n].st = "cancelled"]
    /\ UNCHANGED <<client, sched, locals, net, obs, listeners, dispatch>>

\* emitter.remove_listener(event, callback)
BusRemove(e, cb) ==
    /\ cb \in Range(listeners[e])
    /\ listeners' = [listeners EXCEPT ![e] = Remove(@, cb)]
    /\ UNCHANGED <<client, sched, locals, net, obs, futures, dispatch, waits>>

\* emitter.emit(event, packet), for a packet among pkts
BusEmit(e, pkts) ==
    \E p \in pkts :
        LET r == Dispatch(listeners[e], 1, <<>>, futures, p) IN
        /\ listeners' = [listeners EXCEPT ![e] = r.ls]
        /\ futures' = r.done
        /\ waits' = Settled(waits, listeners, <<e>>, r.done \ futures, p)
        /\ dispatch' = [snap |-> listeners[e], calls |-> r.calls]
        /\ UNCHANGED <<client, sched, locals, net, obs>>

\* ------------------------------------------------------------------- Next
Callers == {App} \cup RlTasks
ConnectArgs == BOOLEAN \X BOOLEAN

\* The steps of server selection that scan the list, and the one that ranks
\* it (use_fastest).
Scanning == SelectLoop \/ SelectRefetched \/ ProbeDone
Ranking == FindFastestDone(Latencies)

\* The other steps of connect, and those of the handshake.
Connecting ==
    \/ ConnectTop \/ SelectTop \/ GetServerList \/ GetServerListDone(FetchLists)
    \/ SelectChoose
    \/ ConnectSelected \/ ConnectOpened \/ ConnectRefused
    \/ ConnectHandshakeDone \/ ConnectAfterDisconnect
    \/ HandshakeTop \/ HandshakeRequest \/ HandshakeSent \/ HandshakeResult

\* The steps of disconnect, of the read loop and of the transport.
Session ==
    \/ \E t \in Callers : Listen(t) \/ ListenWoken(t)
    \/ \E t \in Callers : Disconnect(t) \/ DisconnectLoopAwaited(t)
                          \/ DisconnectClose(t) \/ DisconnectClosed(t)
                          \/ DisconnectSession(t) \/ DisconnectSessionClosed(t)
    \/ \E s \in Sockets : ConnectionLost(s) \/ ServerClose(s)
    \/ \E t \in RlTasks : ReadLoopTop(t) \/ ReadLoopMessage(t) \/ ReadLoopExit(t)
                          \/ ReadLoopCancelled(t)
    \/ \E t \in Tasks : IOComplete(t)
    \/ AppWake \/ AppSleep \/ AppDisconnect \/ AppDisconnectReturns

\* The session under any server, any use of connect and disconnect, and
\* cancellation of the application's calls; nobody subscribes.
Next ==
    \/ Connecting \/ Scanning \/ Ranking \/ Session
    \/ AppConnect(ConnectArgs) \/ AppCancel(WaitPcs \ {"sleep"}) \/ AppCancelled
    \/ Send(App) \/ SendDrained(App)
    \/ \E s \in Sockets : ServerSend(s, ServerFrames)

Spec == Init /\ [][Next]_vars

\* The session with a coroutine subscriber that answers the packets of a
\* topic, under a server that completes the handshake.
GoodFrames == <<{ReqFrame}, {ResFrame(EResultOK)}, {EncPkt("A"), EncMulti(<<"B", "A">>)}>>
Senders == {App} \cup SubTasks

NextSubs ==
    \/ Connecting \/ Scanning \/ Session
    \/ AppConnect({<<FALSE, FALSE>>})
    \/ AppCancel({"d_await_task", "d_wait_closed", "d_sess_wait"}) \/ AppCancelled
    \/ \E t \in Senders : Send(t) \/ SendDrained(t)
    \/ \E s \in Sockets : ServerSend(s, GoodFrames)
    \/ \E t \in SubTasks : SubscriberStart(t) \/ SubscriberSent(t)

\* The application has subscribed before it connects.
InitSubs ==
    /\ Constructed /\ NotApplied
    /\ listeners = [e \in Topics |-> IF e = "A" THEN <<Sender>> ELSE <<>>]

SpecSubs == InitSubs /\ [][NextSubs]_vars

\* The event bus on its own: subscribers come and go, packets are emitted.
BusCallbacks == {Callback("sync", 1), Callback("sync", 2)}
BusTopics == {"A"}

Untimed == {[check |-> FALSE, timed |-> FALSE]}

NextBus ==
    \/ \E e \in BusTopics, cb \in BusCallbacks : BusOn(e, cb) \/ BusRemove(e, cb)
    \/ \E e \in BusTopics, n \in 1..MaxOn : BusWaitFor(e, n, Untimed)
    \/ \E e \in BusTopics : BusEmit(e, {"match"})

SpecBus == Init /\ [][NextBus]_vars

\* wait_for on its own: callers wait on a topic with or without a predicate
\* and a timeout, packets are emitted, timeouts pass, callers are cancelled.
WaitOptions == [check : BOOLEAN, timed : BOOLEAN]
WaitCalls == {1, 2}

NextWaitFor ==
    \/ \E e \in BusTopics, n \in WaitCalls : BusWaitFor(e, n, WaitOptions)
    \/ \E e \in BusTopics : BusEmit(e, Packets)
    \/ \E n \in WaitCalls : WaitReturns(n) \/ WaitTimeout(n) \/ WaitTimedOut(n)
                            \/ WaitCancel(n)

SpecWaitFor == Init /\ [][NextWaitFor]_vars

\* Server selection by scanning, with lists of two endpoints, with and
\* without retry, under a server that completes the handshake or closes.
ScanLists == {<<>>, <<2>>, <<1, 2>>}
ScanArgs == {<<FALSE, FALSE>>, <<TRUE, FALSE>>}

NextSelect ==
    \/ ConnectTop \/ SelectTop \/ GetServerList \/ GetServerListDone(ScanLists)
    \/ SelectChoose \/ Scanning
    \/ ConnectSelected \/ ConnectOpened \/ ConnectRefused
    \/ ConnectHandshakeDone \/ ConnectAfterDisconnect
    \/ HandshakeTop \/ HandshakeRequest \/ HandshakeSent \/ HandshakeResult
    \/ Session
    \/ AppConnect(ScanArgs)
    \/ Send(App) \/ SendDrained(App)
    \/ \E s \in Sockets : ServerSend(s, GoodFrames)

SpecSelect == Init /\ [][NextSelect]_vars

\* connect(use_fastest=True) over lists of two endpoints whose probes take
\* one of two finite latencies or fail.
RankLists == {<<>>, <<1, 2>>, <<2, 1>>}
RankLatencies == {1, 2, Inf}

NextFastest ==
    \/ ConnectTop \/ SelectTop \/ GetServerList \/ GetServerListDone(RankLists)
    \/ SelectChoose \/ FindFastestDone(RankLatencies)
    \/ ConnectSelected \/ ConnectOpened \/ ConnectRefused
    \/ ConnectHandshakeDone \/ ConnectAfterDisconnect
    \/ HandshakeTop \/ HandshakeRequest \/ HandshakeSent \/ HandshakeResult
    \/ Session
    \/ AppConnect({<<FALSE, TRUE>>})
    \/ Send(App) \/ SendDrained(App)
    \/ \E s \in Sockets : ServerSend(s, GoodFrames)

SpecFastest == Init /\ [][NextFastest]_vars

\* The application fetches the server list itself, before and after
\* connect(use_fastest=True) has ranked the endpoints.
CacheLists == {<<1>>, <<1, 2>>}

NextFetch ==
    \/ ConnectTop \/ SelectTop \/ GetServerList \/ GetServerListDone(CacheLists)
    \/ SelectChoose \/ FindFastestDone(Latencies)
    \/ ConnectSelected \/ ConnectOpened \/ ConnectRefused
    \/ ConnectHandshakeDone \/ ConnectAfterDisconnect
    \/ HandshakeTop \/ HandshakeRequest \/ HandshakeSent \/ HandshakeResult
    \/ Session
    \/ AppConnect({<<FALSE, TRUE>>}) \/ AppFetch \/ AppFetchReturns
    \/ Send(App) \/ SendDrained(App)
    \/ \E s \in Sockets : ServerSend(s, GoodFrames)

SpecFetch == Init /\ [][NextFetch]_vars

\* The session with an application that sends requests, connected or not,
\* under a server that completes the handshake.
NextSend ==
    \/ Connecting \/ Scanning \/ Session
    \/ AppConnect({<<FALSE, FALSE>>})
    \/ Send(App) \/ SendDrained(App)
    \/ \E s \in Sockets : ServerSend(s, GoodFrames)
    \/ AppSendProtobuf \/ SendProtobuf \/ SendProtobufSent

SpecSend == Init /\ [][NextSend]_vars

\* The session with a subscriber that raises and a coroutine subscriber
\* whose body raises, under a server that completes the handshake and then
\* sends packets of a subscribed topic, of an unknown message id, and with a
\* body that does not decode.
Raisers == <<Callback("raise", 1), Callback("araise", 2)>>
PacketFrames ==
    <<{ReqFrame}, {ResFrame(EResultOK)}, {EncPkt("A"), EncPkt("Unknown"), EncBad("A")}>>

NextPackets ==
    \/ Connecting \/ Scanning \/ Session
    \/ AppConnect({<<FALSE, FALSE>>})
    \/ Send(App) \/ SendDrained(App)
    \/ \E s \in Sockets : ServerSend(s, PacketFrames)
    \/ \E t \in SubTasks : SubscriberRaises(t)

InitPackets ==
    /\ Constructed /\ NotApplied
    /\ listeners = [e \in Topics |-> IF e = "A" THEN Raisers ELSE <<>>]

SpecPackets == InitPackets /\ [][NextPackets]_vars

\* The session with one subscriber registered before it connects and one
\* caller of wait_for, with or without a timeout, under a server that
\* completes the handshake.
Subscribed == [e \in Topics |-> IF e = "A" THEN <<Callback("sync", 1)>> ELSE <<>>]
Timeouts == [check : {FALSE}, timed : BOOLEAN]

NextWait ==
    \/ Connecting \/ Scanning \/ Session
    \/ AppConnect({<<FALSE, FALSE>>})
    \/ Send(App) \/ SendDrained(App)
    \/ \E s \in Sockets : ServerSend(s, GoodFrames)
    \/ BusWaitFor("A", 1, Timeouts)
    \/ WaitReturns(1) \/ WaitTimeout(1) \/ WaitTimedOut(1) \/ WaitCancel(1)

InitWait == Constructed /\ NotApplied /\ listeners = Subscribed

SpecWait == InitWait /\ [][NextWait]_vars

\* The event loop runs a timer that is due and resumes a caller whose future
\* is done, and it runs the tasks of the client that are ready.
WaitProgress == WaitTimeout(1) \/ WaitTimedOut(1) \/ WaitReturns(1)
ClientProgress == Connecting \/ Scanning \/ Session \/ Send(App) \/ SendDrained(App)

SpecWaitFair == SpecWait /\ WF_vars(WaitProgress) /\ WF_vars(ClientProgress)

\* ================================================================ claims
\* The application is inside perform_handshake (or in a listen or a send that
\* the handshake called).
InHandshake ==
    \/ pc[App] \in {"h_top", "h_got1", "h_sent", "h_got2"}
    \/ /\ ret[App] # <<>>
       /\ ret[App][Len(ret[App])] \in {"h_got1", "h_sent", "h_got2"}
\* The read-loop task the client holds exists and has not finished.
LoopLive == loop_task # NoTask /\ pc[loop_task] \notin {"none", "done"}
\* The client holds a transport that has not been closed.
SocketOpen == writer # NoSock /\ sockst[writer] = "open"
\* The server has answered the handshake on connection s with a
\* ChannelEncryptResult whose result code is not OK.
Rejected(s) ==
    /\ Len(arrived[s]) >= 2
    /\ arrived[s][1] = ReqFrame
    /\ arrived[s][2].id = "ChannelEncryptResult"
    /\ arrived[s][2].code # EResultOK

\* The message ids a frame carries: the sub-packets of a Multi in their order
\* inside it, nothing when the frame does not decrypt.
Carried(f) ==
    IF f.k = "multi" THEN f.subs ELSE IF f.k = "pkt" THEN <<f.id>> ELSE <<>>
RECURSIVE Flat(_)
Flat(fs) == IF fs = <<>> THEN <<>> ELSE Carried(Head(fs)) \o Flat(Tail(fs))
\* The data frames of connection s that the read loop has read and handled
\* (the last one read is not handled yet while the loop holds its message).
Handled(s) ==
    SubSeq(arrived[s], 3,
           Len(arrived[s]) - Len(inbuf[s])
           - (IF pc[RlTask(s)] = "rl_got" /\ msg[RlTask(s)] # NoMsg THEN 1 ELSE 0))

\* C1: when the server answers the handshake with a result code other than
\* OK, no session comes of it: the client is not connected, holds no read
\* loop, and has not installed the key of that handshake.
C1_RejectedHandshakeFails ==
    \A s \in Sockets :
        reader = s /\ Rejected(s) =>
            ~connected /\ loop_task = NoTask /\ session_key # KeyOf(s)

\* C2: in every connection attempt, also one that follows an earlier session
\* of the same client, the handshake runs in the clear: no session key is
\* installed while perform_handshake reads and writes its frames.
C2_HandshakeInClear == InHandshake => session_key = NoKey

\* C3: when disconnect returns to the application, connected is false, reader and writer are absent, no read-loop
\* task is held, the HTTP session is closed, and the session key and the HMAC
\* secret are absent.
C3_DisconnectTearsDown ==
    pc[App] = "a_disc_ret" =>
        /\ ~connected /\ reader = NoSock /\ writer = NoSock
        /\ loop_task = NoTask /\ session = None
        /\ session_key = NoKey /\ hmac_secret = NoKey

\* C4: an emit calls every subscriber that was registered for the topic when
\* it began, once each and in registration order.
C4_EmitCallsAllRegistered == dispatch.calls = dispatch.snap

C6_ConnectedIffLiveAndOpen == connected <=> (LoopLive /\ SocketOpen)

\* C7: connected true implies that the read-loop task exists and has not
\* finished, whatever connect, disconnect, receive errors and cancellation do.
C7_ConnectedHasLiveLoop == connected => LoopLive
\* The read loop has seen a receive fail and the client is still connected.
C7_Witness ==
    /\ connected
    /\ \E s \in Sockets : pc[RlTask(s)] = "rl_got" /\ msg[RlTask(s)] = NoMsg

\* C8: once disconnect has returned, the read loop emits nothing more for the
\* session and no subscriber task that an earlier emit created starts running.
C8_NothingAfterDisconnect ==
    [][discDone =>
         /\ emitted' = emitted \/ emitted' = <<>>
         /\ \A t \in SubTasks : pc[t] = "a_start" => pc'[t] = "a_start"]_vars
\* disconnect has returned while a subscriber that an emit of the session
\* started is still suspended in its send.
C8_Witness == discDone /\ \E t \in SubTasks : pc[t] = "w_drain"

\* C9: what the read loop has emitted is what the frames it has read carry,
\* frame by frame in their order of arrival, the sub-packets of a Multi in
\* their order inside it.
C9_EmittedInArrivalOrder ==
    \A s \in Sockets : reader = s => emitted = Flat(Handled(s))
\* A Multi and then a packet have been emitted.
C9_Witness == emitted = <<"B", "C", "A">>

\* C10: while the send of a subscriber that an emit started is not complete,
\* the read loop emits no further packet.
SendPending(t) == pc[t] \in {"a_start", "w_top", "w_drain"}
C10_SendBeforeNextEmit ==
    [][(\E t \in SubTasks : SendPending(t)) => Len(emitted') <= Len(emitted)]_vars


\* C11: wait_for returns the first packet emitted on its topic after the call
\* that goes past its predicate: no such emit leaves the call pending; a call
\* that is pending has its subscriber installed, and one that has its packet
\* has not.
C11_WaitForFirstMatch ==
    \A n \in DOMAIN waits :
        /\ ~waits[n].missed
        /\ waits[n].st = "pending" => Listener(n) # {}
        /\ waits[n].st \in {"resolved", "returned"} => Listener(n) = {}

\* C12: a wait_for whose timeout passes fails with Timeout; when it does its
\* subscriber is removed, the lists of subscribers are what they were before
\* the call, and the connected flag is what it was.
C12_TimeoutRestores ==
    [][\A n \in DOMAIN waits :
          (waits[n].st = "expired" /\ waits'[n].st = "timeout")
          => /\ listeners' = Subscribed
             /\ connected' = connected]_vars

C12_Witness == waits[1].st = "timeout" /\ connected /\ listeners = Subscribed

\* C13: a wait_for that is in flight when the session has been disconnected
\* does not stay pending forever: it completes (with Timeout, unless its
\* caller cancels it).
C13_WaitsEndAfterDisconnect ==
    (discDone /\ waits[1].st = "pending") ~> (waits[1].st # "pending")

\* C14: send_protobuf_message called while the session is not connected
\* writes nothing and fails with NotConnected to its caller.
C14_SendNotConnectedFails ==
    [][(pc[App] = "sp_top" /\ ~connected /\ pc'[App] # "sp_top")
       => (outlog' = outlog /\ result' = "NotConnected")]_vars

\* The packets the frames fs hold, one per frame that decrypts (those of a
\* Multi one per sub-packet), a body that does not decode included.
RECURSIVE Packeted(_)
Packeted(fs) ==
    IF fs = <<>> THEN <<>>
    ELSE (IF Head(fs).k = "undecodable" THEN <<Head(fs).id>> ELSE Carried(Head(fs)))
         \o Packeted(Tail(fs))

\* C15: a frame with an unknown message id or with a body that does not
\* decode is emitted all the same, as a packet under its id: what the read
\* loop has emitted holds one packet for each such frame it has handled.
C15_UndecodableEmitted ==
    \A s \in Sockets : reader = s => emitted = Packeted(Handled(s))

\* C16: a subscriber that raises is contained.  An emit by the read loop to
\* a subscriber that raises goes on to the subscribers after it (the coroutine
\* subscriber is started), the read loop goes on and connected is unchanged;
\* when the task of a coroutine subscriber raises, connected, the read loop's
\* task and every read loop's position are unchanged.
C16_RaisingSubscriberContained ==
    [][/\ emitted' = Append(emitted, "A")
          => /\ connected' = connected
             /\ \E s \in Sockets : pc[RlTask(s)] = "rl_got" /\ pc'[RlTask(s)] = "rl_top"
             /\ \E t \in SubTasks : pc[t] = "none" /\ pc'[t] = "r_start"
       /\ \A t \in SubTasks :
            (pc[t] = "r_start" /\ pc'[t] = "none")
            => /\ connected' = connected /\ loop_task' = loop_task
               /\ \A s \in Sockets : pc'[RlTask(s)] = pc[RlTask(s)]]_vars

\* Two packets were emitted to the raising subscribers, the tasks have ended,
\* and the session is connected with its read loop waiting for the next frame.
C16_Witness ==
    /\ emitted = <<"A", "A">> /\ connected
    /\ \A t \in SubTasks : pc[t] = "none"
    /\ pc[loop_task] = "l_wait"

\* Nothing of a session is held: the state of a client that was never
\* connected or has been disconnected.
TornDown ==
    /\ ~connected /\ loop_task = NoTask
    /\ reader = NoSock /\ writer = NoSock /\ session = None
\* The positions inside disconnect.
DisconnectPcs == {"d_top", "d_await_task", "d_await_self", "d_after_loop",
                  "d_wait_closed", "d_session", "d_sess_wait"}

\* C17: disconnect is idempotent.  A step of disconnect on a client that
\* holds nothing of a session changes no field of the client; and when the
\* application's disconnect returns, whether or not it overlapped with the
\* disconnect the read loop called, the client holds nothing of a session, as
\* after a single call.
C17_DisconnectIdempotent ==
    [][/\ \A t \in Callers :
            (TornDown /\ pc[t] \in DisconnectPcs /\ pc'[t] # pc[t])
            => client' = client
       /\ pc'[App] = "a_disc_ret" => TornDown']_vars

\* The application's disconnect returns after the read loop had called
\* disconnect itself and before any disconnect had completed.
C17_Witness == pc[App] = "a_disc_ret" /\ rlDisc > 0 /\ ~discDone /\ TornDown

\* C18: no step of the handshake lets an exception out of connect, whatever
\* frame it has read; and when connect(retry=false) returns after a handshake
\* that failed, it returns ConnectFailed with connected false, no socket held
\* by the client and the connection of this attempt not open.
C18_DeviantHandshakeFails ==
    [][/\ (pc[App] \in {"h_got1", "h_got2"} /\ pc'[App] # pc[App])
          => result' # "Raised"
       /\ (pc[App] = "c_after_disc" /\ ~c_retry /\ pc'[App] # pc[App])
          => /\ result' = "ConnectFailed"
             /\ ~connected' /\ writer' = NoSock /\ reader' = NoSock
             /\ nsock' \in Sockets => sockst'[nsock'] # "open"]_vars

\* The server has sent ChannelEncryptRequest and then ChannelEncryptResult(OK)
\* on connection s, and the client has read both.
Answered(s) ==
    /\ s \in Sockets /\ Len(arrived[s]) >= 2 /\ Len(inbuf[s]) <= Len(arrived[s]) - 2
    /\ arrived[s][1] = ReqFrame /\ arrived[s][2] = ResFrame(EResultOK)

\* C19: when the server has sent ChannelEncryptRequest and, after the
\* client's response, ChannelEncryptResult(OK), connect returns OK; and when
\* connect returns OK connected is true, the read loop of this connection is
\* started, the session key is the key generated in this handshake (the one
\* wrapped into the response sent on this connection) and the HMAC secret is
\* its first 16 bytes.
C19_HandshakeInstallsKey ==
    [][/\ (pc[App] = "c_hs_done" /\ pc'[App] # pc[App] /\ Answered(nsock))
          => result' = "OK"
       /\ (result # "OK" /\ result' = "OK")
          => /\ connected' /\ loop_task' = RlTask(nsock)
             /\ pc'[RlTask(nsock)] = "rl_start"
             /\ outlog[nsock] # <<>> /\ outlog[nsock][1].id = "ChannelEncryptResponse"
             /\ session_key' = KeyOf(nsock)
             /\ hmac_secret' = Prefix16(KeyOf(nsock))]_vars

\* connect has returned OK after the two handshake frames, the read loop is
\* about to start and the key of this connection is installed.
C19_Witness ==
    /\ result = "OK" /\ connected /\ Answered(nsock)
    /\ pc[RlTask(nsock)] = "rl_start"
    /\ session_key = KeyOf(nsock) /\ hmac_secret = Prefix16(session_key)

\* The endpoints probed in this selection, in the order of the probes, and
\* the lists scanned, one after the other.
Probed == [i \in DOMAIN probes |-> probes[i].ep]
Scanned == IF Len(scans) = 2 THEN scans[1] \o scans[2] ELSE scans[1]
Found == probes # <<>> /\ probes[Len(probes)].lat < Inf
\* The scan as claimed: the endpoints were probed one by one in the order of
\* the list, the scan stopped at the first finite latency and returned that
\* endpoint; the list was fetched again once, after the first list had been
\* probed to its end without success, and the second list was scanned once.
ScanInOrder ==
    /\ Len(scans) \in {1, 2}
    /\ Len(probes) <= Len(Scanned) /\ Probed = SubSeq(Scanned, 1, Len(probes))
    /\ \A i \in 1..(Len(probes) - 1) : probes[i].lat = Inf
    /\ Len(scans) = 2 => /\ Len(probes) >= Len(scans[1])
                         /\ Found => Len(probes) > Len(scans[1])
    /\ IF Found THEN c_server = probes[Len(probes)].ep
       ELSE c_server = NoServer /\ Len(scans) = 2 /\ Len(probes) = Len(Scanned)
    /\ Len(scans) - 1 <= fetches /\ fetches <= Len(scans)

Best(ps) ==
    IF \A i \in DOMAIN ps : ps[i].lat = Inf THEN NoServer
    ELSE ps[CHOOSE i \in DOMAIN ps :
               /\ ps[i].lat < Inf
               /\ \A j \in DOMAIN ps : ps[j].lat > ps[i].lat
                                        \/ (ps[j].lat = ps[i].lat /\ j >= i)].ep

\* C21: when server selection returns under use_fastest, the endpoint it
\* returns is the cached fastest one, and connect opens its connection to
\* it; when find-fastest has just run, it probed the known endpoints and the
\* cached endpoint is the one with the smallest finite latency, the earliest
\* in the list on a tie, none when every probe failed.
C21_FastestIsSmallestFirst ==
    [][(pc[App] = "c_selected" /\ c_fast /\ pc'[App] # pc[App])
       => /\ probes # <<>> => /\ Probed = server_list
                              /\ fastest_server[1] = Best(probes)
          /\ c_server = fastest_server[1]
          /\ c_server # NoServer => pc'[App] = "c_open_wait" /\ c_server' = c_server]_vars

\* A later connect(use_fastest=True) has been given the cached endpoint, which
\* is not the first of the list.
C21_Witness ==
    /\ pc[App] = "c_open_wait" /\ c_fast /\ nsock >= 1
    /\ server_list = <<1, 2>> /\ fastest_server[1] = 2 /\ c_server = 2

\* C22: a cached fastest endpoint that is present is a member of the server
\* list, which is what the most recent fetch produced.
C22_CachedFastestInList ==
    fastest_server[1] # NoServer => fastest_server[1] \in Range(server_list)

\* C23: in every state the session key and the HMAC secret are both absent,
\* or both present with the HMAC secret the first 16 bytes (the first half)
\* of the 32-byte session key.
C23_KeyAndSecretTogether ==
    \/ session_key = NoKey /\ hmac_secret = NoKey
    \/ /\ session_key # NoKey /\ Len(session_key) = 2
       /\ hmac_secret = SubSeq(session_key, 1, 1)

\* A second connection is in its handshake after a disconnect, and the key
\* and the secret of the first session are both still there.
C23_Witness ==
    /\ discDone /\ InHandshake /\ nsock = 2
    /\ session_key = KeyOf(1) /\ hmac_secret # NoKey

\* ------------------------------------------------------ frames to parse
\* The rest of the client, which applying a pure function leaves alone.
program == <<client, sched, locals, net, bus, hsess, result, probes, scans, fetches,
             logged_in, heartbeat_task>>
NoVal == [st |-> "none"]

\* n bytes that decode as a message (field 1 set again and again), each
\* value telling its place.
Fill(n) == [i \in 1..n |-> IF i % 2 = 1 THEN 8 ELSE i \div 2]
HeaderLens == {0, 1, 2}
FillLens == {0, 2, 12, 14, 16}
\* What follows the leading u32: nothing, or a u32 and bytes to fill.
Tails == {<<>>} \cup {Le32(h) \o Fill(n) : h \in HeaderLens, n \in FillLens}
LeadingU32(id, bit) == IF bit THEN Masked(id) ELSE Le32(id)
ParseFrames ==
    {LeadingU32(id, bit) \o t : id \in EMsg \cup {UnknownId}, bit \in BOOLEAN, t \in Tails}

\* Sub-frames of a Multi: a ClientHeartBeat in the protobuf form, a packet of
\* an unknown id in the legacy form, and a Multi of one heartbeat.
HeartBeatFrame == Masked(ClientHeartBeat) \o Le32(0)
UnknownFrame == Le32(UnknownId) \o Fill(16) \o <<7>>
RECURSIVE Payload(_)
Payload(fs) ==
    IF fs = <<>> THEN <<>> ELSE Le32(Len(Head(fs))) \o Head(fs) \o Payload(Tail(fs))
Compressions == {"none", "gzip", "zip"}
MultiFrame(fs, z) ==
    Masked(Multi) \o Le32(0)
        \o CASE z = "none" -> Serialized(0, Payload(fs))
             [] z = "gzip" -> Serialized(Len(Payload(fs)) + 1, gzip_compress(Payload(fs)))
             [] z = "zip" -> Serialized(Len(Payload(fs)) + 1, zip_compress(Payload(fs)))
SubFrames == {HeartBeatFrame, UnknownFrame, MultiFrame(<<HeartBeatFrame>>, "none")}
MaxSubFrames == 3
SubFrameSeqs == UNION {[1..n -> SubFrames] : n \in 0..MaxSubFrames}
MultiFrames == {MultiFrame(fs, z) : fs \in SubFrameSeqs, z \in Compressions}

InitParse ==
    /\ Constructed /\ listeners = [e \in Topics |-> <<>>]
    /\ arg \in ParseFrames \cup MultiFrames
    /\ val = NoVal

\* packet = SteamPacket.parse(arg)
Parse ==
    /\ val.st = "none"
    /\ val' = [st |-> "parsed", packet |-> parse(arg)]
    /\ UNCHANGED <<program, emitted, arg>>

\* packet.unpack_multi()
UnpackMulti ==
    /\ val.st = "parsed" /\ ~IsErr(val.packet)
    /\ val' = [st |-> "unpacked", packet |-> val.packet,
               packets |-> unpack_multi(val.packet)]
    /\ UNCHANGED <<program, emitted, arg>>

\* The read loop's body on the same message.
ReadLoopBody ==
    /\ val.st = "unpacked"
    /\ val' = [val EXCEPT !.st = "emitted"]
    /\ emitted' = emitted \o Emits(arg)
    /\ UNCHANGED <<program, arg>>

NextParse == Parse \/ UnpackMulti \/ ReadLoopBody
SpecParse == InitParse /\ [][NextParse]_vars

\* C25: parse takes the form from the high bit of the leading u32 alone:
\* with the bit set the packet is in the protobuf form, with it clear in the
\* legacy form; an unknown id is kept as the integer and the body is the raw
\* body bytes of that same form.
C25_FormFromHighBit ==
    (val.st = "parsed" /\ ~IsErr(val.packet)) =>
        LET data == Slice(arg, 4, Len(arg))
            packet == val.packet
        IN  IF is_protobuf(arg)
            THEN /\ packet.header.cls = "CMsgProtoBufHeader"
                 /\ packet.emsg \notin EMsg =>
                      /\ packet.emsg = remove_mask(arg)
                      /\ packet.body = Bytes(Slice(data, 4 + U32(data, 0), Len(data)))
            ELSE /\ packet.header.cls = "MsgHdr"
                 /\ packet.emsg \notin EMsg =>
                      /\ packet.emsg = U32(arg, 0)
                      /\ packet.body = Bytes(Slice(data, 16, Len(data)))

\* C24: for a Multi whose payload (decompressed when size_unzipped is not
\* zero) is the concatenation of N length-prefixed sub-frames, unpack_multi
\* returns the N packets that parse gives for the sub-frames, in payload
\* order, and the read loop emits those N events in that order and none for
\* the envelope; for a packet that is not a Multi, unpack_multi returns no
\* packets.
C24_UnpackMultiInOrder ==
    /\ val.st \in {"unpacked", "emitted"} =>
         /\ val.packet.emsg # Multi => val.packets = [packets |-> <<>>]
         /\ \A fs \in SubFrameSeqs, z \in Compressions :
                arg = MultiFrame(fs, z) =>
                    /\ ~IsErr(val.packets)
                    /\ Len(val.packets.packets) = Len(fs)
                    /\ \A i \in DOMAIN fs : val.packets.packets[i] = parse(fs[i])
    /\ val.st = "emitted" =>
         \A fs \in SubFrameSeqs, z \in Compressions :
             arg = MultiFrame(fs, z) =>
                 /\ Len(emitted) = Len(fs)
                 /\ \A i \in DOMAIN fs : emitted[i] = parse(fs[i]).emsg

\* The read loop has emitted the heartbeat and the packet of the unknown id
\* of a gzip-compressed Multi of the two.
C24_Witness ==
    /\ val.st = "emitted"
    /\ arg = MultiFrame(<<HeartBeatFrame, UnknownFrame>>, "gzip")
    /\ Len(val.packets.packets) = 2
    /\ emitted = <<ClientHeartBeat, UnknownId>>

\* ------------------------------------------------- get_server_list, failing
\* What the GET of get_server_list can come to: a response whose serverlist
\* entries all split into host and port; an aiohttp.ClientError (connection
\* failure, HTTP error status); a body that json() cannot decode; a
\* serverlist with an entry that does not split, after the entries of list.
FetchResponses ==
    {[kind |-> "ok", list |-> l] : l \in CacheLists}
        \cup {[kind |-> k, list |-> <<>>] : k \in {"ClientError", "JSONDecodeError"}}
        \cup {[kind |-> "ValueError", list |-> l] : l \in {<<>>, <<1>>}}
NoFetch == [kind |-> "none"]

\* get_server_list after the GET, under any of the responses rs: the list is
\* replaced and returned; or the ClientError is caught and [] returned, the
\* list staying; or json() raises; or the list is emptied, filled up to the
\* bad entry, and the unpacking or int() raises ValueError. What is not a
\* ClientError leaves get_server_list and its callers.
GetServerListEnds(rs) ==
    /\ Resumes(App, "g_wait")
    /\ \E r \in rs :
        /\ server_list' = IF r.kind \in {"ok", "ValueError"} THEN r.list ELSE server_list
        /\ IF r.kind \in {"ok", "ClientError"}
           THEN /\ Return(App)
                /\ val' = [kind |-> r.kind, raised |-> FALSE,
                           returned |-> IF r.kind = "ok" THEN r.list ELSE <<>>]
                /\ UNCHANGED <<ready, mustCancel, locals, result, probes, scans, fetches>>
           ELSE /\ Abandon /\ result' = "Raised"
                /\ val' = [kind |-> r.kind, raised |-> TRUE, returned |-> None]
                /\ UNCHANGED ready
    /\ UNCHANGED <<session, fastest_server, reader, writer, connected, session_key,
                   hmac_secret, loop_task, net, emitted, hsess, logged_in,
                   heartbeat_task, arg>>
    /\ UNCHANGED bus

NextFetchFails ==
    \/ ConnectTop \/ SelectTop \/ GetServerList \/ GetServerListEnds(FetchResponses)
    \/ SelectChoose \/ FindFastestDone(Latencies)
    \/ ConnectSelected \/ ConnectOpened \/ ConnectRefused
    \/ ConnectHandshakeDone \/ ConnectAfterDisconnect
    \/ HandshakeTop \/ HandshakeRequest \/ HandshakeSent \/ HandshakeResult
    \/ Session
    \/ AppConnect({<<FALSE, TRUE>>}) \/ AppFetch \/ AppFetchReturns
    \/ Send(App) \/ SendDrained(App)
    \/ \E s \in Sockets : ServerSend(s, GoodFrames)

InitFetchFails ==
    /\ Constructed /\ listeners = [e \in Topics |-> <<>>]
    /\ arg = None /\ val = NoFetch
SpecFetchFails == InitFetchFails /\ [][NextFetchFails]_vars

\* C26: a fetch that fails (an HTTP or network error, a body that is not
\* JSON, an entry that is not host:port) returns an empty list and raises
\* nothing.
C26_FailedFetchReturnsEmpty ==
    val.kind \in {"ClientError", "JSONDecodeError", "ValueError"} =>
        ~val.raised /\ val.returned = <<>>

\* C27: when connect(retry=True) returns, the client is connected, whatever
\* the server list, the probes and the handshakes of its attempts were.
C27_RetryConnectReturnsConnected ==
    [][(c_retry /\ result = None /\ result' \in {"OK", "ConnectFailed"})
       => connected']_vars

\* ------------------------------------------------------------- logon.py
\* The topic of EMsg.ClientLogOnResponse, the response with eresult c, and
\* the listener of the wait_for that anonymous_login makes (the first call).
LogOnTopic == "A"
LogOnResponse(c) == Frame("pkt", LogOnTopic, c, <<>>, TRUE)
LoginWait == Callback("wait", 1)
\* The task of _heartbeat_loop, which _start_heartbeat creates; its loop is
\* not followed.
Heartbeat == [kind |-> "hb", n |-> 0]

\* await client.anonymous_login()
AppLogin ==
    /\ AppIdle
    /\ Goto(App, "lg_top")
    /\ result' = None
    /\ UNCHANGED <<client, ret, ready, mustCancel, locals, net, emitted, hsess, sel>>
    /\ UNCHANGED bus

\* anonymous_login up to the send: not connected, it returns
\* EResult.NoConnection; else the ClientLogon message is built and
\* send_protobuf_message, whose own test of connected passes, sends it.
LoginTop ==
    /\ Running(App) /\ pc[App] = "lg_top"
    /\ IF ~connected
       THEN /\ Goto(App, "idle")
            /\ result' = "NoConnection"
            /\ UNCHANGED <<ret, out>>
       ELSE /\ writer # NoSock => Len(outlog[writer]) < MaxOut
            /\ out' = [out EXCEPT ![App] = "ClientLogon"]
            /\ Call(App, "w_top", "lg_sent")
            /\ UNCHANGED result
    /\ UNCHANGED <<client, ready, mustCancel, c_retry, c_fast, c_server, s_iter, s_i,
                   s_pass, h_key, h_ok, msg, lsock, atask, net, emitted, hsess, sel>>
    /\ UNCHANGED bus

\* _wait_for_logon_result: wait_for(EMsg.ClientLogOnResponse, timeout=20)
\* makes its future, registers its listener and waits.
LoginWaitFor ==
    /\ Running(App) /\ pc[App] = "lg_sent"
    /\ Len(listeners[LogOnTopic]) < MaxOn
    /\ listeners' = [listeners EXCEPT ![LogOnTopic] = Append(@, LoginWait)]
    /\ waits' = [waits EXCEPT ![1] =
                   [st |-> "pending", timed |-> TRUE, missed |-> FALSE, code |-> 0]]
    /\ futures' = futures \ {1}
    /\ Suspend(App, "lg_future")
    /\ UNCHANGED <<client, ret, mustCancel, locals, net, obs, dispatch>>

\* The future has its result, or the timeout has cancelled it: the caller is
\* scheduled.
LoginWake ==
    /\ Quiet /\ pc[App] = "lg_future" /\ ~InReady(App)
    /\ waits[1].st \in {"resolved", "expired"}
    /\ ready' = Append(ready, App)
    /\ UNCHANGED <<client, pc, ret, mustCancel, locals, net, obs>>
    /\ UNCHANGED bus

\* A logon that takes every response for a success.
LoginResultAnyCode ==
    /\ Resumes(App, "lg_future")
    /\ IF waits[1].st = "resolved"
       THEN /\ result' = IF waits[1].code = EResultOK THEN "OK" ELSE "NotOK"
            /\ logged_in' = TRUE
            /\ heartbeat_task' = Heartbeat
            /\ waits' = [waits EXCEPT ![1].st = "returned"]
            /\ UNCHANGED listeners
       ELSE /\ listeners' = [listeners EXCEPT ![LogOnTopic] = Remove(@, LoginWait)]
            /\ waits' = [waits EXCEPT ![1].st = "timeout"]
            /\ result' = "Fail"
            /\ UNCHANGED <<logged_in, heartbeat_task>>
    /\ Goto(App, "idle")
    /\ UNCHANGED <<client, ret, ready, mustCancel, locals, net, emitted, hsess, probes,
                   scans, fetches, arg, val, futures, dispatch>>

\* _wait_for_logon_result after the wait: wait_for returned the packet, and
\* _handle_logon_response returns its eresult, setting logged_in and starting
\* the heartbeat when it is OK; or wait_for removed its listener and raised
\* TimeoutError, and the result is EResult.Fail.
LoginResult ==
    /\ Resumes(App, "lg_future")
    /\ IF waits[1].st = "resolved"
       THEN /\ result' = IF waits[1].code = EResultOK THEN "OK" ELSE "NotOK"
            /\ logged_in' = (logged_in \/ waits[1].code = EResultOK)
            /\ heartbeat_task' = IF waits[1].code = EResultOK THEN Heartbeat
                                 ELSE heartbeat_task
            /\ waits' = [waits EXCEPT ![1].st = "returned"]
            /\ UNCHANGED listeners
       ELSE /\ listeners' = [listeners EXCEPT ![LogOnTopic] = Remove(@, LoginWait)]
            /\ waits' = [waits EXCEPT ![1].st = "timeout"]
            /\ result' = "Fail"
            /\ UNCHANGED <<logged_in, heartbeat_task>>
    /\ Goto(App, "idle")
    /\ UNCHANGED <<client, ret, ready, mustCancel, locals, net, emitted, hsess, probes,
                   scans, fetches, arg, val, futures, dispatch>>

\* The server answers the logon with OK, with another result, or with a
\* response whose body does not decode, and sends other packets.
LogonFrames ==
    <<{ReqFrame}, {ResFrame(EResultOK)},
      {LogOnResponse(EResultOK)} \cup {LogOnResponse(c) : c \in OtherCodes}
          \cup {EncBad(LogOnTopic), EncPkt("B")}>>

NextLogin ==
    \/ Connecting \/ Scanning \/ Session
    \/ AppConnect({<<FALSE, FALSE>>})
    \/ Send(App) \/ SendDrained(App)
    \/ \E s \in Sockets : ServerSend(s, LogonFrames)
    \/ AppLogin \/ LoginTop \/ LoginWaitFor \/ LoginWake \/ LoginResult
    \/ WaitTimeout(1)

SpecLogin == Init /\ [][NextLogin]_vars

BlockSize == 16
NoFlip == [blk |-> 0 - 1, byte |-> 0, bit |-> 0]
Unknown == 0 - 1
Garbled == [i \in 1..BlockSize |-> Unknown]

\* hmac_sha1(secret, data)[:13]
Mac13(secret, data) == [secret |-> secret, data |-> data]
UnknownIv == [mac |-> Mac13(0, <<>>), prefix |-> <<Unknown, Unknown, Unknown>>]

\* Crypto.Util.Padding.pad(message, 16) and unpad(padded, 16)
pad(message) ==
    LET n == BlockSize - (Len(message) % BlockSize)
    IN  message \o [i \in 1..n |-> n]
unpad(padded) ==
    LET n == padded[Len(padded)]
    IN  IF /\ Len(padded) > 0 /\ Len(padded) % BlockSize = 0
           /\ n >= 1 /\ n <= BlockSize
           /\ \A i \in 1..n : padded[Len(padded) + 1 - i] = n
        THEN Bytes(SubSeq(padded, 1, Len(padded) - n))
        ELSE Raise("ValueError")

RECURSIVE Pow2(_)
Pow2(b) == IF b = 0 THEN 1 ELSE 2 * Pow2(b - 1)
\* v with bit b changed
FlipBit(v, b) == IF (v \div Pow2(b)) % 2 = 1 THEN v - Pow2(b) ELSE v + Pow2(b)

\* symmetric_encrypt_HMAC, prefix being the three bytes of urandom(3):
\* iv = hmac[:13] + prefix, then symmetric_encrypt_with_iv.
symmetric_encrypt_HMAC(message, key, secret, prefix) ==
    [key |-> key,
     iv |-> [mac |-> Mac13(secret, prefix \o message), prefix |-> prefix],
     padded |-> pad(message),
     flip |-> NoFlip]

\* symmetric_decrypt_iv: AES-ECB on message[:16]
symmetric_decrypt_iv(c, key) ==
    IF c.key = key /\ c.flip.blk # 0 THEN c.iv ELSE UnknownIv

\* cipher.decrypt(message[16:]) under CBC with iv: block i is the decryption
\* of cipher block i xor cipher block i - 1 (the IV for the first): unknown
\* when cipher block i was changed or the IV is not the one used, the
\* plaintext with the same bit changed when cipher block i - 1 was.
cbc_decrypt(c, key, iv) ==
    [p \in 1..Len(c.padded) |->
        LET i == ((p - 1) \div BlockSize) + 1
            at == (p - 1) % BlockSize
        IN  IF c.key # key \/ c.flip.blk = i \/ (i = 1 /\ iv # c.iv) THEN Unknown
            ELSE IF c.flip.blk = i - 1 /\ i > 1 /\ c.flip.byte = at
            THEN FlipBit(c.padded[p], c.flip.bit)
            ELSE c.padded[p]]

\* symmetric_decrypt_with_iv: what unpad may give. The padding of unknown
\* bytes is wrong, or happens to be right and leaves unknown bytes.
symmetric_decrypt_with_iv(c, key, iv) ==
    LET padded == cbc_decrypt(c, key, iv)
    IN  IF padded[Len(padded)] = Unknown
        THEN {Raise("ValueError"), Bytes(<<Unknown>>)}
        ELSE {unpad(padded)}

\* symmetric_decrypt_HMAC: the outcomes of the call, each the plaintext or
\* what is raised (ValueError by unpad, RuntimeError by the comparison of
\* iv[:13] with the digest of iv[-3:] + decrypted_message).
symmetric_decrypt_HMAC(c, key, secret) ==
    LET iv == symmetric_decrypt_iv(c, key)
    IN  {IF IsErr(d) THEN d
         ELSE IF iv.mac # Mac13(secret, iv.prefix \o d.raw) THEN Raise("RuntimeError")
         ELSE d : d \in symmetric_decrypt_with_iv(c, key, iv)}

\* Messages around the block size, keys, secrets and prefixes.
MessageLens == {0, 1, 13, 15, 16, 17}
Plain(n) == [i \in 1..n |-> i]
CryptoInputs ==
    [key : {1, 2}, secret : {1, 2}, message : {Plain(n) : n \in MessageLens},
     prefix : {<<0, 0, 0>>, <<1, 2, 3>>}]
\* The bits of a ciphertext of n CBC blocks.
Flips(n) == [blk : 0..n, byte : 0..(BlockSize - 1), bit : 0..7]

InitCrypto ==
    /\ Constructed /\ listeners = [e \in Topics |-> <<>>]
    /\ arg \in CryptoInputs
    /\ val = NoVal

\* ciphertext = symmetric_encrypt_HMAC(message, key, hmac_secret)
Encrypt ==
    /\ val.st = "none"
    /\ val' = [st |-> "encrypted",
               c |-> symmetric_encrypt_HMAC(arg.message, arg.key, arg.secret,
                                            arg.prefix)]
    /\ UNCHANGED <<program, emitted, arg>>

\* One bit of the ciphertext is changed on its way.
Tamper ==
    /\ val.st = "encrypted"
    /\ \E f \in Flips(Len(val.c.padded) \div BlockSize) :
         val' = [st |-> "tampered", c |-> [val.c EXCEPT !.flip = f]]
    /\ UNCHANGED <<program, emitted, arg>>

\* symmetric_decrypt_HMAC(ciphertext, key, hmac_secret) by the receiver
DecryptHMAC ==
    /\ val.st \in {"encrypted", "tampered"}
    /\ \E r \in symmetric_decrypt_HMAC(val.c, arg.key, arg.secret) :
         val' = [st |-> "decrypted", c |-> val.c, out |-> r]
    /\ UNCHANGED <<program, emitted, arg>>

NextCrypto == Encrypt \/ Tamper \/ DecryptHMAC
SpecCrypto == InitCrypto /\ [][NextCrypto]_vars

\* C29: decrypting the HMAC-variant ciphertext of a message with the same key
\* and secret returns the message, and decrypting a ciphertext in which a bit
\* was changed fails with the integrity error (the RuntimeError of the HMAC
\* comparison) and returns no plaintext.
C29_RoundTripAndIntegrity ==
    val.st = "decrypted" =>
        IF val.c.flip = NoFlip THEN val.out = Bytes(arg.message)
        ELSE val.out = Raise("RuntimeError")

\* ------------------------------------------------------------------- vdf.py
\* A text is the sequence of its non-empty lines, each split as parse splits
\* it: <<"{">>, <<"}">>, <<key>> or <<key, value>> (the quotes stripped). A
\* dict keeps its insertion order: it is the sequence of its items, a value
\* being a string, None or a dict.
Str(s) == [t |-> "str", s |-> s]
NoneValue == [t |-> "None"]
Dict(d) == [t |-> "dict", d |-> d]
Item(k, v) == [k |-> k, v |-> v]
Keys(d) == [i \in DOMAIN d |-> d[i].k]
IndexOf(d, k) == CHOOSE i \in DOMAIN d : d[i].k = k

\* d[k] = v: a key that is there keeps its place, a new one goes last.
SetItem(d, k, v) ==
    IF \E i \in DOMAIN d : d[i].k = k THEN [d EXCEPT ![IndexOf(d, k)].v = v]
    ELSE Append(d, Item(k, v))

\* The dict reached from d by the keys of path, and d after an assignment
\* in that dict.
RECURSIVE At(_, _)
At(d, path) ==
    IF path = <<>> THEN d ELSE At(d[IndexOf(d, Head(path))].v.d, Tail(path))
RECURSIVE Assigned(_, _, _, _)
Assigned(d, path, k, v) ==
    IF path = <<>> THEN SetItem(d, k, v)
    ELSE LET i == IndexOf(d, Head(path))
         IN  [d EXCEPT ![i].v = Dict(Assigned(d[i].v.d, Tail(path), k, v))]

\* VDFParser.parse, the loop over the lines: result (root), the stack of dicts and
\* current_dict, the dicts being named by their paths in it.
RECURSIVE ParseLines(_, _, _, _)
ParseLines(lines, root, stack, current_dict) ==
    IF lines = <<>> THEN Dict(root)
    ELSE LET line == Head(lines)
             cur == At(root, current_dict)
         IN  IF line = <<"{">>
             THEN IF cur = <<>> THEN Raise("IndexError")
                  ELSE LET last_key == Keys(cur)[Len(cur)]
                       IN  ParseLines(Tail(lines),
                                      Assigned(root, current_dict, last_key, Dict(<<>>)),
                                      Append(stack, current_dict),
                                      Append(current_dict, last_key))
             ELSE IF line = <<"}">>
             THEN IF stack = <<>> THEN Raise("IndexError")
                  ELSE ParseLines(Tail(lines), root, SubSeq(stack, 1, Len(stack) - 1),
                                  stack[Len(stack)])
             ELSE ParseLines(Tail(lines),
                             Assigned(root, current_dict, line[1],
                                      IF Len(line) = 2 THEN Str(line[2]) ELSE NoneValue),
                             stack, current_dict)
VDFParse(lines) == ParseLines(lines, <<>>, <<<<>>>>, <<>>)

\* The dictionary of a text: as above, an opening brace attaching its block
\* to the key of the line before it.
RECURSIVE Blocks(_, _, _, _, _)
Blocks(lines, root, stack, current_dict, before) ==
    IF lines = <<>> THEN Dict(root)
    ELSE LET line == Head(lines)
         IN  IF line = <<"{">>
             THEN Blocks(Tail(lines), Assigned(root, current_dict, before, Dict(<<>>)),
                         Append(stack, current_dict), Append(current_dict, before), before)
             ELSE IF line = <<"}">>
             THEN Blocks(Tail(lines), root, SubSeq(stack, 1, Len(stack) - 1),
                         stack[Len(stack)], before)
             ELSE Blocks(Tail(lines),
                         Assigned(root, current_dict, line[1],
                                  IF Len(line) = 2 THEN Str(line[2]) ELSE NoneValue),
                         stack, current_dict, line[1])

\* Texts of at most MaxLines lines over two keys and one value: key/value
\* lines and keys followed by a block, the braces matching.
MaxLines == 5
VdfKeys == {"a", "b"}
VdfLines == {<<"{">>, <<"}">>} \cup {<<k>> : k \in VdfKeys} \cup {<<k, "1">> : k \in VdfKeys}
RECURSIVE Depth(_, _)
\* The nesting depth after the lines, below zero when a brace closes nothing.
Depth(lines, n) ==
    IF n = 0 THEN 0
    ELSE LET d == Depth(lines, n - 1)
         IN  IF d < 0 THEN d
             ELSE IF lines[n] = <<"{">> THEN d + 1
             ELSE IF lines[n] = <<"}">> THEN d - 1
             ELSE d
WellFormed(lines) ==
    /\ \A n \in DOMAIN lines : Depth(lines, n) >= 0
    /\ Depth(lines, Len(lines)) = 0
    /\ \A n \in DOMAIN lines :
         /\ lines[n] = <<"{">> => n > 1 /\ Len(lines[n - 1]) = 1
                                  /\ lines[n - 1] \notin {<<"{">>, <<"}">>}
         /\ (Len(lines[n]) = 1 /\ lines[n] \notin {<<"{">>, <<"}">>})
                => n < Len(lines) /\ lines[n + 1] = <<"{">>
Texts == {t \in UNION {[1..n -> VdfLines] : n \in 0..MaxLines} : WellFormed(t)}

InitVdf ==
    /\ Constructed /\ listeners = [e \in Topics |-> <<>>]
    /\ arg \in Texts
    /\ val = NoVal

\* VDFParser.parse(text)
ParseVdf ==
    /\ val.st = "none"
    /\ val' = [st |-> "parsed", out |-> VDFParse(arg)]
    /\ UNCHANGED <<program, emitted, arg>>

NextVdf == ParseVdf
SpecVdf == InitVdf /\ [][NextVdf]_vars

\* C30: parse gives the dictionary of the text: every key maps to its string
\* or to the dictionary of its block, an opening brace attaching the block to
\* the key on the line before it, also when that key occurred earlier in the
\* same block, and entries after a closing brace go to the enclosing block.
C30_BlockGoesToKeyBefore ==
    val.st = "parsed" =>
        val.out = Blocks(arg, <<>>, <<<<>>>>, <<>>, None)

\* ------------------------------------------------- the handshake's reads
\* The steps the event loop itself takes: the coroutines of the client that
\* are ready, the callbacks of the transports, and the completion of the I/O
\* the client started (the HTTP request, the probes, open_connection, drain,
\* the closing of the HTTP session).  What the server sends, and when, is not
\* among them.
EventLoop ==
    \/ ConnectTop \/ SelectTop \/ GetServerList \/ GetServerListDone(ScanLists)
    \/ SelectChoose \/ Scanning
    \/ ConnectSelected \/ ConnectOpened \/ ConnectRefused
    \/ ConnectHandshakeDone \/ ConnectAfterDisconnect
    \/ HandshakeTop \/ HandshakeRequest \/ HandshakeSent \/ HandshakeResult
    \/ \E t \in Callers : Listen(t) \/ ListenWoken(t)
    \/ \E t \in Callers : Disconnect(t) \/ DisconnectLoopAwaited(t)
                          \/ DisconnectClose(t) \/ DisconnectClosed(t)
                          \/ DisconnectSession(t) \/ DisconnectSessionClosed(t)
    \/ \E s \in Sockets : ConnectionLost(s)
    \/ \E t \in RlTasks : ReadLoopTop(t) \/ ReadLoopMessage(t) \/ ReadLoopExit(t)
                          \/ ReadLoopCancelled(t)
    \/ \E t \in Tasks : IOComplete(t)
    \/ Send(App) \/ SendDrained(App)

\* connect by scanning under a server that is free to stay silent: the event
\* loop keeps running what is ready, the server owes nothing.
SpecSilent == SpecSelect /\ WF_vars(EventLoop)

\* The application's connect is suspended in a read of the handshake.
HandshakeReading == InHandshake /\ pc[App] = "l_wait" /\ ~InReady(App)

\* C31: a read of the handshake does not wait forever: when the server sends
\* nothing (no ChannelEncryptRequest, or no answer to the response), the read
\* times out, the handshake fails and connect(retry=False) returns.
C31_HandshakeReadTimesOut ==
    (HandshakeReading /\ ~c_retry) ~> (pc[App] \in {"idle", "sleep"})

\* ------------------------------------------------ endpoints that go down
\* The endpoints that refuse connections (kept in arg): an endpoint that has
\* gone down stays down.
Down == arg
Endpoints == {1, 2}
LiveListed == \E i \in DOMAIN server_list : server_list[i] \notin Down

EndpointDies(e) ==
    /\ Quiet /\ e \notin Down
    /\ arg' = Down \cup {e}
    /\ UNCHANGED <<client, sched, locals, net, emitted, hsess, result, probes,
                   scans, fetches, logged_in, heartbeat_task, val>>
    /\ UNCHANGED bus

\* _test_server_latency against these endpoints: infinite for one that is
\* down (OSError), finite for the others.
Faithful(ps) == \A i \in DOMAIN ps : (ps[i].ep \in Down) <=> (ps[i].lat = Inf)
ProbeEndpoint == ProbeDone /\ Faithful(probes')
RankEndpoints == FindFastestDone(Latencies) /\ Faithful(probes')
\* open_connection to the endpoint selected: refused when it is down.
OpenEndpoint ==
    \/ c_server \notin Down /\ ConnectOpened
    \/ c_server \in Down /\ ConnectRefused

\* What the event loop and a server that completes every handshake do.
RetryLoop ==
    \/ ConnectTop \/ SelectTop \/ GetServerList \/ GetServerListDone({<<1, 2>>})
    \/ SelectChoose \/ SelectLoop \/ SelectRefetched
    \/ ProbeEndpoint \/ RankEndpoints
    \/ ConnectSelected \/ OpenEndpoint
    \/ ConnectHandshakeDone
    \/ HandshakeTop \/ HandshakeRequest \/ HandshakeSent \/ HandshakeResult
    \/ \E t \in Callers : Listen(t) \/ ListenWoken(t)
    \/ \E t \in Callers : Disconnect(t) \/ DisconnectLoopAwaited(t)
                          \/ DisconnectClose(t) \/ DisconnectClosed(t)
                          \/ DisconnectSession(t) \/ DisconnectSessionClosed(t)
    \/ \E s \in Sockets : ConnectionLost(s)
    \/ \E t \in RlTasks : ReadLoopTop(t) \/ ReadLoopMessage(t) \/ ReadLoopExit(t)
                          \/ ReadLoopCancelled(t)
    \/ \E t \in Tasks : IOComplete(t)
    \/ Send(App) \/ SendDrained(App)
    \/ \E s \in Sockets : ServerSend(s, GoodFrames)

\* The application connects a client that has had no connection yet, with
\* retry, with and without use_fastest, and disconnects; endpoints go down at
\* any time; the server may close a session that is established.
ConnectFresh == nsock = 0 /\ AppConnect({<<TRUE, FALSE>>, <<TRUE, TRUE>>})
SessionClosed(s) == connected /\ ServerClose(s)

NextRetry ==
    \/ RetryLoop
    \/ ConnectFresh
    \/ AppWake \/ AppSleep \/ AppDisconnect \/ AppDisconnectReturns
    \/ \E e \in Endpoints : EndpointDies(e)
    \/ \E s \in Sockets : SessionClosed(s)

InitRetry ==
    /\ Constructed /\ listeners = [e \in Topics |-> <<>>]
    /\ arg = {} /\ val = None

SpecRetry == InitRetry /\ [][NextRetry]_vars /\ WF_vars(RetryLoop)

\* C32: connect(retry=True) returns OK in the end as long as an endpoint of
\* the server list accepts connections and completes the handshake, also when
\* the cached fastest endpoint has gone down since it was ranked.
C32_RetryReachesLiveEndpoint ==
    (c_retry /\ pc[App] = "c_top" /\ LiveListed) ~> (result = "OK" \/ ~LiveListed)

\* The ClientLogon frame of the logon in progress has been written and the
\* call has not had its answer: send is suspended in drain, or has returned,
\* or the call waits for the response.
LogonWritten ==
    \/ pc[App] = "w_drain" /\ ret[App] = <<"lg_sent">>
    \/ pc[App] = "lg_sent"
    \/ pc[App] = "lg_future" /\ waits[1].st = "pending"
\* The read loop emits a ClientLogOnResponse in this step.
LogOnEmitted ==
    /\ Len(emitted') > Len(emitted)
    /\ \E i \in (Len(emitted) + 1)..Len(emitted') : emitted'[i] = LogOnTopic

\* C33: a ClientLogOnResponse that the read loop emits once the ClientLogon
\* frame has been written reaches the logon call in progress (the future of
\* its wait_for gets the packet), also when send is still suspended in drain.
C33_LogOnResponseNotLost ==
    [][(LogonWritten /\ LogOnEmitted) => waits'[1].st = "resolved"]_vars

\* C34: once a call of wait_for has finished (it returned the packet, raised
\* TimeoutError, or was cancelled by its caller) its listener is in no
\* topic's subscriber list.
C34_FinishedWaitUnsubscribed ==
    \A n \in DOMAIN waits :
        waits[n].st \in {"returned", "timeout", "cancelled"} => Listener(n) = {}

\* C35: a client that is logged in is connected: every disconnect, by the
\* caller or by the read loop after a connection loss, leaves logged_in false.
C35_LoggedInImpliesConnected == logged_in => connected

\* ------------------------------------------------- Multi frames received
\* A frame given by the bytes of its payload, encrypted under the session key.
Raw(b) == Frame("raw", "Multi", 0, b, TRUE)
\* A Multi, not compressed, whose message_body is payload.
MultiOf(payload) == Masked(Multi) \o Le32(0) \o Serialized(0, payload)
\* Payloads whose second sub-frame is cut short (its length prefix promises
\* more bytes than there are), is followed by two stray bytes, or has a body
\* that does not decode; each after a well-formed heartbeat.
TruncatedPayload == Payload(<<HeartBeatFrame>>) \o Le32(8) \o SubSeq(HeartBeatFrame, 1, 2)
StrayPayload == Payload(<<HeartBeatFrame>>) \o <<8, 0>>
MalformedPayload == Payload(<<HeartBeatFrame, HeartBeatFrame \o <<7>>>>)
BadPayloads == {TruncatedPayload, StrayPayload, MalformedPayload}
GoodPayloads == {Payload(<<HeartBeatFrame, UnknownFrame>>)}
MultiData ==
    <<{ReqFrame}, {ResFrame(EResultOK)},
      {Raw(MultiOf(payload)) : payload \in BadPayloads \cup GoodPayloads}>>

\* The session under a server that completes the handshake and sends Multis,
\* well-formed and not.
NextMulti ==
    \/ Connecting \/ Scanning \/ Session
    \/ AppConnect({<<FALSE, FALSE>>})
    \/ Send(App) \/ SendDrained(App)
    \/ \E s \in Sockets : ServerSend(s, MultiData)

SpecMulti == Init /\ [][NextMulti]_vars

\* Expanding the Multi in these bytes raises.
MultiRaises(b) ==
    LET packet == parse(b)
    IN  /\ ~IsErr(packet) /\ packet.emsg = Multi
        /\ IsErr(unpack_multi(packet))

\* C36: when expanding a received Multi raises on one of its sub-frames, the
\* read loop emits nothing from that Multi (the sub-packets before the bad
\* one included), leaves connected as it is and goes on to its next read.
C36_FailedMultiEmitsNothing ==
    [][\A t \in RlTasks :
         (/\ pc[t] = "rl_got" /\ pc'[t] # "rl_got"
          /\ msg[t].k = "raw" /\ MultiRaises(msg[t].subs))
         => /\ emitted' = emitted /\ listeners' = listeners /\ futures' = futures
            /\ connected' = connected
            /\ pc'[t] = "rl_top"]_vars

\* A Multi whose expansion raised has been read on the connection held, and
\* the read loop, still connected, has emitted the packets of the well-formed
\* Multi that followed it and reads again.
C36_Witness ==
    \E s \in Sockets :
        /\ connected /\ reader = s /\ inbuf[s] = <<>>
        /\ Len(arrived[s]) = 4
        /\ MultiRaises(arrived[s][3].subs)
        /\ arrived[s][4].subs = MultiOf(Payload(<<HeartBeatFrame, UnknownFrame>>))
        /\ emitted = <<"B", "Unknown">>
        /\ pc[RlTask(s)] = "l_wait"

\* ---------------------------------------- connect on a connected client
\* await client.connect() on a client that is connected: connect makes no
\* test of connected.
AppConnectAgain(args) ==
    /\ AppIdle /\ connected
    /\ \E a \in args : c_retry' = a[1] /\ c_fast' = a[2]
    /\ Goto(App, "c_top")
    /\ result' = None
    /\ UNCHANGED <<client, ret, ready, mustCancel, c_server, s_iter, s_i, s_pass,
                   h_key, h_ok, msg, out, lsock, atask, net, emitted, hsess, sel>>
    /\ UNCHANGED bus

\* The application connects and disconnects in any order, under a server
\* that completes every handshake and closes no connection.
NextReconnect ==
    \/ EventLoop
    \/ AppWake \/ AppSleep \/ AppDisconnect \/ AppDisconnectReturns
    \/ AppConnect({<<FALSE, FALSE>>}) \/ AppConnectAgain({<<FALSE, FALSE>>})
    \/ \E s \in Sockets : ServerSend(s, GoodFrames)

SpecReconnect == Init /\ [][NextReconnect]_vars

\* The read loops that are reading (in their loop or in its listen).
Reading == {t \in RlTasks : pc[t] \in {"rl_start", "rl_top", "rl_got", "l_top", "l_wait"}}

\* C37: whenever the application's calls of connect and disconnect have
\* returned, every connection the client opened is the one it holds or has
\* been closed, and at most one read loop is reading.
C37_NoSocketOrLoopLeft ==
    pc[App] \in {"idle", "sleep"} =>
        /\ \A s \in Sockets : sockst[s] = "open" => writer = s
        /\ Cardinality(Reading) <= 1

\* ------------------------------------------- the handshake's response frame
\* binascii.crc32 (CRC-32 of zlib: reflected, polynomial 0xEDB88320, initial
\* value and final xor 0xFFFFFFFF), on a 32-bit register kept as two 16-bit
\* halves <<high, low>>.
RECURSIVE Xor(_, _, _)
Xor(a, b, bits) ==
    IF bits = 0 THEN 0
    ELSE ((a + b) % 2) + 2 * Xor(a \div 2, b \div 2, bits - 1)
CrcShift(c) ==
    LET sh == <<c[1] \div 2, (c[2] \div 2) + 32768 * (c[1] % 2)>>
    IN  IF c[2] % 2 = 1 THEN <<Xor(sh[1], 60856, 16), Xor(sh[2], 33568, 16)>> ELSE sh
RECURSIVE CrcBits(_, _)
CrcBits(c, n) == IF n = 0 THEN c ELSE CrcBits(CrcShift(c), n - 1)
\* the register c after the bytes data[lo..hi], by halves
RECURSIVE CrcBytes(_, _, _, _)
CrcBytes(data, lo, hi, c) ==
    IF lo > hi THEN c
    ELSE IF lo = hi THEN CrcBits(<<c[1], Xor(c[2], data[lo], 16)>>, 8)
    ELSE LET mid == (lo + hi) \div 2
             left == CrcBytes(data, lo, mid, c)
         IN  IF left[1] < 0 THEN left ELSE CrcBytes(data, mid + 1, hi, left)
crc32(data) ==
    LET c == CrcBytes(data, 1, Len(data), <<65535, 65535>>)
    IN  <<Xor(c[1], 65535, 16), Xor(c[2], 65535, 16)>>
\* struct.pack("<I", crc) of a register
Le32Of(c) == <<c[2] % 256, c[2] \div 256, c[1] % 256, c[1] \div 256>>

\* The universe key is an RSA key of 1024 bits: PKCS1_OAEP with SHA1 takes at
\* most ModulusLen - 2 * HashLen - 2 bytes and gives ModulusLen bytes.
ModulusLen == 128
HashLen == 20
\* generate_session_key(challenge): the session key and its encrypted form,
\* both from the random bytes drawn (named by seed); or ValueError when the
\* key and the challenge are too long for the cipher.
generate_session_key(challenge, seed) ==
    IF 32 + Len(challenge) > ModulusLen - 2 * HashLen - 2 THEN Raise("ValueError")
    ELSE [session_key |-> KeyOf(seed),
          encrypted_key |-> [i \in 1..ModulusLen |-> (37 * seed + 11 * i + Len(challenge)) % 256]]

ChannelEncryptResponse == 1304
\* MsgHdr().pack() with emsg set, and MsgChannelEncryptResponse.pack()
MsgHdrPack(emsg) == Le32(emsg) \o [i \in 1..16 |-> 255]
MsgChannelEncryptResponsePack(key_size, key, crc) ==
    Le32(1) \o Le32(key_size) \o key \o Le32Of(crc)

\* perform_handshake from the first message read (the bytes, when received
\* is true, else None) to its send: whether it went on (sent) or returned
\* False or raised, and the payloads it handed to client.send.
HandshakeResponse(received, message, seed) ==
    IF ~received THEN [outcome |-> "False", sent |-> <<>>]
    ELSE LET packet == parse(message) IN
         IF IsErr(packet) THEN [outcome |-> packet.error, sent |-> <<>>]
         ELSE IF packet.emsg # ChannelEncryptRequest
         THEN [outcome |-> "False", sent |-> <<>>]
         ELSE IF Len(packet.body.raw) < 8
         THEN [outcome |-> StructError.error, sent |-> <<>>]
         ELSE LET challenge == Slice(packet.body.raw, 8, Len(packet.body.raw))
                  keys == generate_session_key(challenge, seed)
              IN  IF IsErr(keys) THEN [outcome |-> keys.error, sent |-> <<>>]
                  ELSE [outcome |-> "sent",
                        sent |-> <<MsgHdrPack(ChannelEncryptResponse)
                                   \o MsgChannelEncryptResponsePack(
                                          Len(keys.encrypted_key), keys.encrypted_key,
                                          crc32(keys.encrypted_key))>>]

\* First messages: every frame of ParseFrames, and ChannelEncryptRequests in
\* the legacy form whose body is too short for its two u32, or holds them and
\* a challenge (the longest the cipher takes has 54 bytes).
ChallengeLens == {0, 16, 54, 55}
RequestFrames ==
    {Le32(ChannelEncryptRequest) \o Fill(16) \o Fill(4)}
        \cup {Le32(ChannelEncryptRequest) \o Fill(16) \o Le32(1) \o Le32(1) \o Fill(n) :
                  n \in ChallengeLens}
Seeds == {1, 2}
InitHandshake ==
    /\ Constructed /\ listeners = [e \in Topics |-> <<>>]
    /\ arg \in {[received |-> FALSE, message |-> <<>>, seed |-> 1]}
                 \cup [received : {TRUE}, message : ParseFrames \cup RequestFrames,
                       seed : Seeds]
    /\ val = NoVal

\* perform_handshake up to its client.send
HandshakeRespond ==
    /\ val.st = "none"
    /\ val' = [st |-> "responded",
               response |-> HandshakeResponse(arg.received, arg.message, arg.seed)]
    /\ UNCHANGED <<program, emitted, arg>>

NextHandshake == HandshakeRespond
SpecHandshake == InitHandshake /\ [][NextHandshake]_vars

\* C38: the frame the handshake writes is a 20-byte legacy header with message
\* id ChannelEncryptResponse and both job ids 0xFFFFFFFFFFFFFFFF, then
\* protocol_version 1, key_size 128, the encrypted key, its crc32 as an
\* unsigned 32-bit value and a trailing u32 of zero; and it is written only
\* when a ChannelEncryptRequest was received.
C38_ResponseFrameLayout ==
    (val.st = "responded" /\ val.response.sent # <<>>) =>
        LET payload == val.response.sent[1]
            key == SubSeq(payload, 29, 28 + ModulusLen)
        IN  /\ Len(val.response.sent) = 1
            /\ arg.received /\ ~IsErr(parse(arg.message))
            /\ parse(arg.message).emsg = ChannelEncryptRequest
            /\ Len(payload) = 20 + 8 + ModulusLen + 4 + 4
            /\ U32(payload, 0) = ChannelEncryptResponse
            /\ \A i \in 5..20 : payload[i] = 255
            /\ U32(payload, 20) = 1
            /\ U32(payload, 24) = 128
            /\ SubSeq(payload, 29 + ModulusLen, 32 + ModulusLen) = Le32Of(crc32(key))
            /\ SubSeq(payload, 33 + ModulusLen, 36 + ModulusLen) = <<0, 0, 0, 0>>

\* ------------------------------------------------------ the legacy layout
LegacyFrame(data) == Len(data) >= 20 /\ ~is_protobuf(data)

\* C39: for a legacy frame of at least 20 bytes, parse gives a header whose
\* message id, target job id and source job id are the little-endian values
\* of bytes 0-3, 4-11 and 12-19 of the frame (a job id being kept as its
\* eight bytes), and a body that is the frame from offset 20 to its end.
C39_LegacyLayout ==
    (val.st # "none" /\ LegacyFrame(arg)) =>
        /\ ~IsErr(val.packet)
        /\ ~val.packet.is_protobuf
        /\ val.packet.header.cls = "MsgHdr"
        /\ val.packet.header.emsg = U32(arg, 0)
        /\ val.packet.header.target_job_id = SubSeq(arg, 5, 12)
        /\ val.packet.header.source_job_id = SubSeq(arg, 13, 20)
        /\ val.packet.body = Bytes(SubSeq(arg, 21, Len(arg)))
\* A legacy frame longer than its header has been parsed: job ids that
\* differ and a body that is not empty.
C39_Witness ==
    /\ val.st = "parsed" /\ LegacyFrame(arg) /\ Len(arg) > 20
    /\ ~IsErr(val.packet)
    /\ val.packet.header.target_job_id # val.packet.header.source_job_id
    /\ val.packet.body.raw # <<>>

\* ------------------------------------------- _find_fastest_server, probe by probe
\* The semaphore's size, scaled down so that lists longer than it are checked.
MAX_CONNECTIONS == 2
MaxEndpoints == 3
\* The endpoints of the list whose port is outside 0..65535 (int(port) takes
\* any integer): connecting to one raises OverflowError.
OutOfRange == arg.out_of_range
ProbeErrors == {"TimeoutError", "OSError", "ValueError"}
NewTask == [pc |-> "created", lat |-> Inf, exc |-> None]

InitProbes ==
    /\ Constructed /\ listeners = [e \in Topics |-> <<>>]
    /\ arg \in {[server_list |-> [i \in 1..n |-> i], out_of_range |-> ports] :
                   n \in 0..MaxEndpoints, ports \in SUBSET (1..MaxEndpoints)}
    /\ OutOfRange \subseteq Range(arg.server_list)
    /\ val = NoVal

ProbesFrame == <<session, reader, writer, connected, session_key,
                 hmac_secret, loop_task, sched, locals, net, bus, hsess, result,
                 scans, fetches, logged_in, heartbeat_task, emitted, arg>>

\* get_server_list has put the endpoints of the response in server_list.
ServerListFetched ==
    /\ val.st = "none"
    /\ server_list' = arg.server_list
    /\ val' = [st |-> "listed"]
    /\ UNCHANGED <<ProbesFrame, probes, fastest_server>>

\* _find_fastest_server up to `await asyncio.gather(*tasks)`: the semaphore
\* and one task per entry of server_list; gather of no tasks is done at once.
FindFastestGather ==
    /\ val.st = "listed"
    /\ IF server_list = <<>>
       THEN /\ val' = [st |-> "done", value |-> MAX_CONNECTIONS, waiters |-> <<>>,
                       task |-> <<>>]
            /\ fastest_server' = <<NoServer, Inf>>
       ELSE /\ val' = [st |-> "gathering", value |-> MAX_CONNECTIONS, waiters |-> <<>>,
                       task |-> [i \in 1..Len(server_list) |-> NewTask]]
            /\ UNCHANGED fastest_server
    /\ UNCHANGED <<ProbesFrame, probes, server_list>>

\* _test_server_latency up to its await of open_connection
Probing(v, i) == [v EXCEPT !.task[i].pc = "probing"]
\* bounded_test, first step (the tasks start in the order of the list):
\* `async with semaphore` takes a permit, or waits in line for one.
BoundedTestStart(i) ==
    /\ val.st \notin {"none", "listed"} /\ i \in DOMAIN val.task
    /\ val.task[i].pc = "created"
    /\ \A j \in 1..(i - 1) : val.task[j].pc # "created"
    /\ IF val.value > 0 /\ val.waiters = <<>>
       THEN /\ val' = [Probing(val, i) EXCEPT !.value = @ - 1]
            /\ probes' = Append(probes, [ep |-> server_list[i], lat |-> Inf])
       ELSE /\ val' = [val EXCEPT !.task[i].pc = "waiting", !.waiters = Append(@, i)]
            /\ UNCHANGED probes
    /\ UNCHANGED <<ProbesFrame, fastest_server, server_list>>

\* bounded_test resumed with the permit a release handed to it
BoundedTestResume(i) ==
    /\ val.st \notin {"none", "listed"} /\ i \in DOMAIN val.task
    /\ val.task[i].pc = "woken"
    /\ val' = Probing(val, i)
    /\ probes' = Append(probes, [ep |-> server_list[i], lat |-> Inf])
    /\ UNCHANGED <<ProbesFrame, fastest_server, server_list>>

\* Semaphore.release at the end of `async with`: the permit goes to the
\* first task in line, or back to the semaphore.
Release(v) ==
    IF v.waiters = <<>> THEN [v EXCEPT !.value = @ + 1]
    ELSE [v EXCEPT !.waiters = Tail(@), !.task[Head(v.waiters)].pc = "woken"]
Started == \A j \in DOMAIN val.task : val.task[j].pc # "created"

\* open_connection gave its streams after lat: writer.close() and the await
\* of wait_closed()
ProbeOpened(i) ==
    /\ val.st \notin {"none", "listed"} /\ i \in DOMAIN val.task /\ Started
    /\ val.task[i].pc = "probing" /\ server_list[i] \notin OutOfRange
    /\ \E lat \in {1, 2} : val' = [val EXCEPT !.task[i].pc = "closing", !.task[i].lat = lat]
    /\ UNCHANGED <<ProbesFrame, fastest_server, probes, server_list>>

\* wait_closed() returned: the probe returns its latency; or it raised
\* OSError, and the probe returns float("inf").
ProbeClosed(i) ==
    /\ val.st \notin {"none", "listed"} /\ i \in DOMAIN val.task
    /\ val.task[i].pc = "closing"
    /\ \/ val' = Release([val EXCEPT !.task[i].pc = "returned"])
       \/ val' = Release([val EXCEPT !.task[i].pc = "returned", !.task[i].lat = Inf,
                                     !.task[i].exc = "OSError"])
    /\ UNCHANGED <<ProbesFrame, fastest_server, probes, server_list>>

\* wait_for(open_connection) raised: TimeoutError, OSError and ValueError
\* are caught and the probe returns float("inf"); the OverflowError of a
\* port out of range is not, and ends the task.
ProbeFailed(i) ==
    /\ val.st \notin {"none", "listed"} /\ i \in DOMAIN val.task /\ Started
    /\ val.task[i].pc = "probing"
    /\ IF server_list[i] \in OutOfRange
       THEN val' = Release([val EXCEPT !.task[i].pc = "raised",
                                       !.task[i].exc = "OverflowError"])
       ELSE \E e \in ProbeErrors :
              val' = Release([val EXCEPT !.task[i].pc = "returned", !.task[i].exc = e])
    /\ UNCHANGED <<ProbesFrame, fastest_server, probes, server_list>>

\* gather has every result: the loop over zip(server_list, latencies) and
\* the assignment of self.fastest_server.
FindFastestRecord ==
    /\ val.st = "gathering"
    /\ \A i \in DOMAIN val.task : val.task[i].pc = "returned"
    /\ val' = [val EXCEPT !.st = "done"]
    /\ fastest_server' = FastestOf(server_list, [i \in DOMAIN val.task |-> val.task[i].lat],
                                   1, <<NoServer, Inf>>)
    /\ UNCHANGED <<ProbesFrame, probes, server_list>>

\* gather passes on the first exception of a task; the other tasks go on, and
\* _find_fastest_server ends without assigning.
FindFastestRaises ==
    /\ val.st = "gathering"
    /\ \E i \in DOMAIN val.task : val.task[i].pc = "raised"
    /\ val' = [val EXCEPT !.st = "raised"]
    /\ UNCHANGED <<ProbesFrame, probes, fastest_server, server_list>>

NextProbes ==
    \/ ServerListFetched \/ FindFastestGather \/ FindFastestRecord \/ FindFastestRaises
    \/ \E i \in 1..MaxEndpoints :
         \/ BoundedTestStart(i) \/ BoundedTestResume(i)
         \/ ProbeOpened(i) \/ ProbeClosed(i) \/ ProbeFailed(i)
SpecProbes == InitProbes /\ [][NextProbes]_vars

InFlight == {i \in DOMAIN val.task : val.task[i].pc \in {"probing", "closing"}}
ProbesOf(ep) == {k \in DOMAIN probes : probes[k].ep = ep}
Failed(i) == val.task[i].exc # None

\* C40: during find-fastest at most MAX_CONNECTIONS probes are in flight,
\* every endpoint of the list is probed exactly once, a probe that fails for
\* any reason counts as infinite latency without aborting the others, and
\* the fastest endpoint is recorded only after all probes have completed.
C40_BoundedProbes ==
    val.st \notin {"none", "listed"} =>
        /\ Cardinality(InFlight) <= MAX_CONNECTIONS
        /\ \A i \in DOMAIN server_list : Cardinality(ProbesOf(server_list[i])) <= 1
        /\ (\A i \in DOMAIN val.task : val.task[i].pc \in {"returned", "raised"})
               => \A i \in DOMAIN server_list : Cardinality(ProbesOf(server_list[i])) = 1
        /\ \A i \in DOMAIN val.task :
               Failed(i) => val.task[i].pc = "returned" /\ val.task[i].lat = Inf
        /\ val.st # "raised"
        /\ val.st # "done" => fastest_server = <<NoServer, Inf>>
        /\ val.st = "done" => \A i \in DOMAIN val.task : val.task[i].pc = "returned"
====
